---- MODULE Spec2Model ----
(***************************************************************************)
(* A model of the CAMELS region adapters of hydrodataset: the time-series  *)
(* readers (read_target_cols / read_relevant_cols) and the attribute       *)
(* readers (read_attr_all) of the regions AUS, BR, CH, DE, DK, FR, IND     *)
(* and SE.                                                                 *)
(*                                                                         *)
(* A number of the output tensor is kept as a record                       *)
(*     [nan, v, d, u]                                                      *)
(* nan : the element is NaN;  v : the number read from the source file;    *)
(* d   : how many times the element was divided by 84.6;                   *)
(* u   : the unit conversion applied to it by the final step.              *)
(* All scalings of the code are by positive factors, so the sign of an     *)
(* element is the sign of v.                                               *)
(***************************************************************************)
EXTENDS Integers, Sequences, FiniteSets, TLC

\* ------------------------------------------------------------------ bounds
MaxDay == 3
MaxRows == 3
MaxGages == 2
MaxCols == 2
MaxForcing == 2
MaxNegDays == 1
MaxAttrRows == 4
MaxKeys == 2
MaxFiles == 3
MaxChunks == 2

\* the rows of an attribute table in the directories that are not the published ones
MaxDirRows == 2

\* the calls that write to the cache in one behaviour
MaxCalls == 3

VARIABLES srcDates, negDays, req, res, pc, attrFiles, areq, ares, ares2,
          obj, cache, creq, cres, ausRegion, ausFiles, dres, dkFiles, seFiles,
          procs, rfiles, writer

vars == <<srcDates, negDays, req, res, pc, attrFiles, areq, ares, ares2, obj, cache, creq, cres,
          ausRegion, ausFiles, dres, dkFiles, seFiles, procs, rfiles, writer>>

\* the variables of the attribute reads and of the cache
attrVars == <<attrFiles, areq, ares, ares2>>

\* writer counts the calls that wrote to the cache and tells which of them wrote
\* each of the two files last (0: none)
cacheVars == <<obj, cache, creq, cres, writer>>

\* the region code and the forcing directory of a CamelsAus object, and the outcome of
\* the last call that describes it
descVars == <<ausRegion, ausFiles, dres>>

\* the per-basin files of the DK directories and of the SE flow directory
fileVars == <<dkFiles, seFiles>>

\* the processes that run a cache method at the same time, and the two cache files as
\* their writes leave them piece by piece
raceVars == <<procs, rfiles>>

\* ------------------------------------------------------------ sequences
Range(s) == {s[i] : i \in 1..Len(s)}

InjSeqs(S, lo, hi) ==
  UNION {{s \in [1..n -> S] : \A i, j \in 1..n : s[i] = s[j] => i = j} : n \in lo..hi}

Contains(s, x) == \E i \in 1..Len(s) : s[i] = x

\* list.index(x): the first position of x
IndexOf(s, x) == CHOOSE i \in 1..Len(s) : s[i] = x /\ \A j \in 1..(i - 1) : s[j] # x

Prefix(s, n) == SubSeq(s, 1, IF n < Len(s) THEN n ELSE Len(s))

\* --------------------------------------------------------------- numbers
NaN == [nan |-> TRUE, v |-> 0, d |-> 0, u |-> "raw"]

Num(x) == [nan |-> FALSE, v |-> x, d |-> 0, u |-> "raw"]

IsNegative(x) == ~x.nan /\ x.v < 0

\* obs[obs < 0] = np.nan
MaskNegative(x) == IF IsNegative(x) THEN NaN ELSE x

\* the division left out
DivMLdSkipped(x) == x

\* one element of y / 84.6
DivMLd(x) == IF x.nan THEN x ELSE [x EXCEPT !.d = x.d + 1]

\* one element of the final unit conversion
ConvertUnit(x, tag) == IF x.nan THEN x ELSE [x EXCEPT !.u = tag]

MapTensor(y, F(_)) ==
  [i \in 1..Len(y) |-> [p \in 1..Len(y[i]) |-> [k \in 1..Len(y[i][p]) |-> F(y[i][p][k])]]]

\* np.full([ng, nt, nf], np.nan)
FullNaN(ng, nt, nf) == [i \in 1..ng |-> [p \in 1..nt |-> [k \in 1..nf |-> NaN]]]

unit_convert_streamflow_m3tofoot3(y) == LET F(x) == ConvertUnit(x, "m3tofoot3") IN MapTensor(y, F)

unit_convert_streamflow_Ltofoot3(y) == LET F(x) == ConvertUnit(x, "Ltofoot3") IN MapTensor(y, F)

\* ----------------------------------------------------- region descriptors
Regions == {"AUS", "BR", "CH", "DE", "DK", "FR", "IND", "SE"}

TargetCols(r) ==
  CASE r = "AUS" -> <<"streamflow_MLd", "streamflow_MLd_inclInfilled", "streamflow_mmd">>
    [] r = "BR"  -> <<"streamflow_mm_selected_catchments">>
    [] r = "CH"  -> <<"discharge_vol(m3/s)", "discharge_spec(mm/d)">>
    [] r = "DE"  -> <<"discharge_vol", "discharge_spec">>
    [] r = "DK"  -> <<"Qobs", "Qdkm">>
    [] r = "FR"  -> <<"tsd_q_l", "tsd_q_mm">>
    [] r = "IND" -> <<"streamflow_observed">>
    [] r = "SE"  -> <<"Qobs_m3s", "Qobs_mm">>

AusForcingFiles ==
  <<"precipitation_AWAP", "precipitation_SILO", "precipitation_var_AWAP",
    "et_morton_actual_SILO", "et_morton_point_SILO", "et_morton_wet_SILO",
    "et_short_crop_SILO", "et_tall_crop_SILO", "evap_morton_lake_SILO",
    "evap_pan_SILO", "evap_syn_SILO", "solarrad_AWAP", "tmax_AWAP", "tmin_AWAP",
    "vprp_AWAP", "mslp_SILO", "radiation_SILO", "rh_tmax_SILO", "rh_tmin_SILO",
    "tmax_SILO", "tmin_SILO", "vp_deficit_SILO", "vp_SILO">>

BrForcingDirs ==
  <<"precipitation_chirps", "precipitation_mswep", "precipitation_cpc",
    "evapotransp_gleam", "evapotransp_mgb", "potential_evapotransp_gleam",
    "temperature_min_cpc", "temperature_mean_cpc", "temperature_max_cpc">>

get_relevant_cols(r) ==
  CASE r = "AUS" -> AusForcingFiles
    [] r = "BR"  -> BrForcingDirs
    [] r = "CH"  -> <<"waterlevel(m)", "precipitation(mm/d)", "temperature_min(degC)",
                      "temperature_mean(degC)", "temperature_max(degC)", "rel_sun_dur(%)",
                      "swe(mm)">>
    [] r = "DE"  -> <<"water_level", "precipitation_mean", "precipitation_min",
                      "precipitation_median", "precipitation_max", "precipitation_stdev",
                      "humidity_mean", "humidity_min", "humidity_median", "humidity_max",
                      "humidity_stdev", "radiation_global_mean", "radiation_global_min",
                      "radiation_global_median", "radiation_global_max",
                      "radiation_global_stdev", "temperature_mean", "temperature_min",
                      "temperature_max">>
    [] r = "DK"  -> <<"precipitation", "temperature", "pet", "DKM_dtp", "DKM_eta",
                      "DKM_wcr", "DKM_sdr", "DKM_sre", "DKM_gwh", "DKM_irr", "Abstraction">>
    [] r = "FR"  -> <<"tsd_prec", "tsd_prec_solid_frac", "tsd_temp", "tsd_pet_ou",
                      "tsd_pet_pe", "tsd_pet_pm", "tsd_wind", "tsd_humid", "tsd_rad_dli",
                      "tsd_rad_ssi", "tsd_swi_gr", "tsd_swi_isba", "tsd_swe_isba",
                      "tsd_temp_min", "tsd_temp_max">>
    [] r = "IND" -> <<"prcp(mm/day)", "tmax(C)", "tmin(C)", "tavg(C)", "srad_lw(w/m2)",
                      "srad_sw(w/m2)", "wind_u(m/s)", "wind_v(m/s)", "wind(m/s)",
                      "rel_hum(%)", "pet(mm/day)", "pet_gleam(mm/day)", "aet_gleam(mm/day)",
                      "evap_canopy(kg/m2/s)", "evap_surface(kg/m2/s)", "sm_lvl1(kg/m2)",
                      "sm_lvl2(kg/m2)", "sm_lvl3(kg/m2)", "sm_lvl4(kg/m2)">>
    [] r = "SE"  -> <<"Pobs_mm", "Tobs_C">>

\* ------------------------------------------------ the CamelsAus region codes
\* the values given as `region' to CamelsAus
RegionCodes == {"AUS", "AUS_v2", "AUS_V2", "aus", "CH", "US"}

\* the forcing files of the 23 variables, as os.walk lists them below CAMELS_FORCING_DIR
AusForcingListing == [i \in 1..Len(AusForcingFiles) |-> AusForcingFiles[i] \o ".csv"]

\* file names found in the subdirectories of CAMELS_FORCING_DIR
AusDirFileNames == {"precipitation_AWAP.csv", "tmax_AWAP.csv", "ClimaticIndices.csv",
                    "desktop.ini"}

\* the OrderedDict of _set_data_source_camelsaus_describe, key by key
CamelsAusDescribe ==
  <<<<"CAMELS_DIR", "">>,
    <<"CAMELS_FLOW_DIR", "03_streamflow/03_streamflow">>,
    <<"CAMELS_FORCING_DIR", "05_hydrometeorology/05_hydrometeorology">>,
    <<"CAMELS_ATTR_DIR", "04_attributes/04_attributes">>,
    <<"CAMELS_GAUGE_FILE", "01_id_name_metadata/01_id_name_metadata/id_name_metadata.csv">>,
    <<"CAMELS_NESTEDNESS_FILE", "None">>,
    <<"CAMELS_BASINS_SHP_FILE",
      "02_location_boundary_area/02_location_boundary_area/shp/CAMELS_AUS_BasinOutlets_adopted.shp">>,
    <<"CAMELS_DOWNLOAD_URL_LST", "https://download.pangaea.de/dataset/921850">> >>

\* the OrderedDict of _set_data_source_camelsausv2_describe, key by key
CamelsAusV2Describe ==
  <<<<"CAMELS_DIR", "">>,
    <<"CAMELS_FLOW_DIR", "03_streamflow/03_streamflow">>,
    <<"CAMELS_FORCING_DIR", "05_hydrometeorology/05_hydrometeorology">>,
    <<"CAMELS_ATTR_DIR", "04_attributes/04_attributes">>,
    <<"CAMELS_GAUGE_FILE", "01_id_name_metadata/01_id_name_metadata/id_name_metadata.csv">>,
    <<"CAMELS_BASINS_SHP_FILE",
      "02_location_boundary_area/02_location_boundary_area/shp/CAMELS_AUS_v2_BasinOutlets_adopted.shp">> >>

CamelsAus_set_data_source_describe(region) ==
  CASE region = "AUS"    -> [ok |-> TRUE, err |-> "", val |-> CamelsAusDescribe]
    [] region = "AUS_v2" -> [ok |-> TRUE, err |-> "", val |-> CamelsAusV2Describe]
    [] OTHER             -> [ok |-> FALSE, err |-> "NotImplementedError", val |-> <<>>]

\* the classes whose description is built by _set_data_source_camels_describe
CamelsClasses == {"CamelsBr", "CamelsCh", "CamelsDe", "CamelsDk", "CamelsFr", "CamelsInd",
                  "CamelsSe"}

\* the key under which the class cls records the shapefile of the basins
CamelsShpKey(cls) == IF cls = "CamelsBr" THEN "CAMELS_BASINS_SHP_FILE" ELSE "CAMELS_BASINS_SHP"

\* the keys of the OrderedDict _set_data_source_camels_describe of the class cls
\* returns, in order, each with the class that built its value
CamelsDescribe(cls) ==
  <<<<"CAMELS_DIR", cls>>,
    <<"CAMELS_FLOW_DIR", cls>>,
    <<"CAMELS_FORCING_DIR", cls>>,
    <<"CAMELS_ATTR_DIR", cls>>,
    <<"CAMELS_ATTR_KEY_LST", cls>>,
    <<"CAMELS_GAUGE_FILE", cls>>,
    <<"CAMELS_NESTEDNESS_FILE", cls>>,
    <<CamelsShpKey(cls), cls>>,
    <<"CAMELS_DOWNLOAD_URL_LST", cls>> >>

\* the regions whose forcing variables are listed in the code
FixedRegions == {"BR", "CH", "DE", "DK", "FR", "IND", "SE"}

\* the descriptor of CamelsSe with the unit of a third variable
forcing_unit_SeThirdUnit(r) ==
  CASE r = "BR"  -> <<"mm/d", "mm/d", "mm/d", "mm/d", "mm/d", "mm/d", "degC", "degC", "degC">>
    [] r = "CH"  -> <<"m", "mm/day", "degC", "degC", "degC", "%", "mm">>
    [] r = "DE"  -> <<"m", "mm/d", "mm/d", "mm/d", "mm/d", "mm/d", "%", "%", "%", "%", "%",
                      "W/m^2", "W/m^2", "W/m^2", "W/m^2", "W/m^2", "degC", "degC", "degC">>
    [] r = "DK"  -> <<"mm/d", "degC", "mm/d", "m", "mm/d", "-", "m^3/s", "m^3/s", "m",
                      "m^3/s", "m^3/s">>
    [] r = "FR"  -> <<"mm/day", "-", "degC", "mm/day", "mm/day", "mm/day", "m/s", "g/kg",
                      "J/cm^2", "J/cm^2", "-", "-", "mm/day", "degC", "degC">>
    [] r = "IND" -> <<"mm/day", "degC", "degC", "degC", "w/m^2", "w/m^2", "m/s", "m/s", "m/s",
                      "%", "mm/day", "mm/day", "mm/day", "kg/m^2/s", "kg/m^2/s", "kg/m^2",
                      "kg/m^2", "kg/m^2", "kg/m^2">>
    [] r = "SE"  -> <<"mm/day", "degC", "mm/day">>

\* camels??_arg["forcing_unit"] of the region r (the degree sign written as deg)
forcing_unit(r) ==
  CASE r = "BR"  -> <<"mm/d", "mm/d", "mm/d", "mm/d", "mm/d", "mm/d", "degC", "degC", "degC">>
    [] r = "CH"  -> <<"m", "mm/day", "degC", "degC", "degC", "%", "mm">>
    [] r = "DE"  -> <<"m", "mm/d", "mm/d", "mm/d", "mm/d", "mm/d", "%", "%", "%", "%", "%",
                      "W/m^2", "W/m^2", "W/m^2", "W/m^2", "W/m^2", "degC", "degC", "degC">>
    [] r = "DK"  -> <<"mm/d", "degC", "mm/d", "m", "mm/d", "-", "m^3/s", "m^3/s", "m",
                      "m^3/s", "m^3/s">>
    [] r = "FR"  -> <<"mm/day", "-", "degC", "mm/day", "mm/day", "mm/day", "m/s", "g/kg",
                      "J/cm^2", "J/cm^2", "-", "-", "mm/day", "degC", "degC">>
    [] r = "IND" -> <<"mm/day", "degC", "degC", "degC", "w/m^2", "w/m^2", "m/s", "m/s", "m/s",
                      "%", "mm/day", "mm/day", "mm/day", "kg/m^2/s", "kg/m^2/s", "kg/m^2",
                      "kg/m^2", "kg/m^2", "kg/m^2">>
    [] r = "SE"  -> <<"mm/day", "degC">>

\* file[:-4]
StripExt(file) == SubSeq(file, 1, Len(file) - 4)

\* [file[:-4] for file in files if file not in skipped], files in walk order
ForcingTypes(files, skipped) ==
  LET kept == SelectSeq(files, LAMBDA f : f \notin skipped)
  IN  [i \in 1..Len(kept) |-> StripExt(kept[i])]

\* the final branch walks the directory as the AUS_v2 branch does
CamelsAus_get_relevant_cols_NoElse(region, files) ==
  CASE region = "AUS"    ->
         [ok |-> TRUE, err |-> "", val |-> ForcingTypes(files, {"ClimaticIndices.csv"})]
    [] OTHER             ->
         [ok |-> TRUE, err |-> "",
          val |-> ForcingTypes(files, {"ClimaticIndices.csv", "desktop.ini"})]

\* CamelsAus.get_relevant_cols for an object of region code `region' whose forcing
\* subdirectories hold `files'
CamelsAus_get_relevant_cols(region, files) ==
  CASE region = "AUS"    ->
         [ok |-> TRUE, err |-> "", val |-> ForcingTypes(files, {"ClimaticIndices.csv"})]
    [] region = "AUS_v2" ->
         [ok |-> TRUE, err |-> "",
          val |-> ForcingTypes(files, {"ClimaticIndices.csv", "desktop.ini"})]
    [] OTHER             -> [ok |-> FALSE, err |-> "NotImplementedError", val |-> <<>>]

\* ------------------------------------------------------- the source files
\* the basin columns of a shared file, in file order (not sorted)
FileBasins == <<"3002", "3001">>

AbsentBasin == "3009"

RECURSIVE Zfill(_, _)
\* str.zfill(width)
Zfill(s, width) == IF Len(s) >= width THEN s ELSE Zfill("0" \o s, width)

\* every variable a region's files hold, targets first
AllCols(r) == TargetCols(r) \o get_relevant_cols(r)

\* the number in the row of day `day' of column (basin index bi, variable index vi):
\* different for every (basin, variable, day), negative on the days of negDays
Cell(bi, vi, day) ==
  LET m == day + MaxDay * (bi - 1) + MaxDay * Len(FileBasins) * (vi - 1)
  IN  Num(IF day \in negDays THEN 0 - m ELSE m)

\* the value column of variable `var' for the basin with file index bi, row by row
Column(r, bi, var) ==
  [i \in 1..Len(srcDates) |-> Cell(bi, IndexOf(AllCols(r), var), srcDates[i])]

\* hydro_time.t_range_days(t_range): the days of the half-open range
t_range_days(t) == [p \in 1..(IF t[2] > t[1] THEN t[2] - t[1] ELSE 0) |-> t[1] + p - 1]

\* np.intersect1d(date, t_range_list, return_indices=True): for the common
\* days in increasing order, ind1 is the first row of the day in date and
\* ind2 its position in the calendar
Ind1(date, day) == IndexOf(date, day)

\* out[ind1] = obs[ind1]: the rows written at their file position
ScatterByRow(out, obs, date, cal) ==
  [p \in 1..Len(out) |-> IF p <= Len(obs) /\ Contains(cal, date[p]) THEN obs[p] ELSE out[p]]

\* out[ind2] = obs[ind1] on a vector `out'
Scatter(out, obs, date, cal) ==
  [p \in 1..Len(out) |-> IF Contains(date, cal[p]) THEN obs[Ind1(date, cal[p])] ELSE out[p]]

time_intersect_dynamic_data(obs, date, t) ==
  LET cal == t_range_days(t)
  IN  Scatter([p \in 1..Len(cal) |-> NaN], obs, date, cal)

Ok(val) == [ok |-> TRUE, err |-> "", val |-> val]

Err(e) == [ok |-> FALSE, err |-> e, val |-> <<>>]

\* Python's `t in s' on strings
StrIn(t, s) == \E i \in 1..(Len(s) - Len(t) + 1) : SubSeq(s, i, i + Len(t) - 1) = t

\* the caller's id of the basin whose raw file header is `raw'
GageId(r, raw) == IF r = "IND" THEN Zfill(raw, 5) ELSE raw

HasBasin(r, gage) == \E bi \in 1..Len(FileBasins) : GageId(r, FileBasins[bi]) = gage

BasinIndex(r, gage) == CHOOSE bi \in 1..Len(FileBasins) : GageId(r, FileBasins[bi]) = gage

MaskVector(obs) == [i \in 1..Len(obs) |-> MaskNegative(obs[i])]

\* y[i, :, k] = vec
SetSeries(y, i, k, vec) ==
  [y EXCEPT ![i] = [p \in 1..Len(y[i]) |-> [y[i][p] EXCEPT ![k] = vec[p]]]]

\* the series of column k of row i
SeriesOf(y, i, k) == [p \in 1..Len(y[i]) |-> y[i][p][k]]

\* ------------------------------------------------ shared-file readers (AUS)
\* the .csv files of the flow directory that hold a streamflow variable
AusFlowFiles == Range(TargetCols("AUS"))

\* y[:, ind2, k] = chosen_data.T with chosen_data = flow_data[gage_id_lst].values[ind1, :]
AusScatterFlow(y, k, gages, cal, var, mask) ==
  [i \in 1..Len(y) |->
     LET col == Column("AUS", IndexOf(FileBasins, gages[i]), var)
         obs == IF mask THEN MaskVector(col) ELSE col
         new == Scatter(SeriesOf(y, i, k), obs, srcDates, cal)
     IN  [p \in 1..Len(y[i]) |-> [y[i][p] EXCEPT ![k] = new[p]]]]

RECURSIVE AusTargetLoop(_, _, _, _, _)
AusTargetLoop(y, k, gages, cal, cols) ==
  IF k > Len(cols) THEN Ok(y)
  ELSE IF cols[k] \notin AusFlowFiles THEN Err("FileNotFoundError")
  ELSE IF \E i \in 1..Len(gages) : ~Contains(FileBasins, gages[i]) THEN Err("KeyError")
  ELSE LET y1 == AusScatterFlow(y, k, gages, cal, cols[k], TRUE)
           y2 == IF cols[k] = "streamflow_MLd" THEN MapTensor(y1, DivMLd) ELSE y1
       IN  AusTargetLoop(y2, k + 1, gages, cal, cols)

AusReadTargetCols(gages, t, cols) ==
  LET cal == t_range_days(t)
      r   == AusTargetLoop(FullNaN(Len(gages), Len(cal), Len(cols)), 1, gages, cal, cols)
  IN  IF r.ok THEN Ok(unit_convert_streamflow_m3tofoot3(r.val)) ELSE r

\* the directory read_relevant_cols chooses for a forcing name
AusForcingDir(var) ==
  IF StrIn("precipitation_", var) THEN "01_precipitation_timeseries"
  ELSE IF StrIn("et_", var) \/ StrIn("evap_", var) THEN "02_EvaporativeDemand_timeseries"
  ELSE IF StrIn("_AWAP", var) THEN "03_Other/AWAP"
  ELSE IF StrIn("_SILO", var) THEN "03_Other/SILO"
  ELSE "none"

\* the directory that holds the file of a forcing variable of the data set
AusForcingFileDir(var) ==
  LET n == IndexOf(AusForcingFiles, var)
  IN  IF n <= 3 THEN "01_precipitation_timeseries"
      ELSE IF n <= 11 THEN "02_EvaporativeDemand_timeseries"
      ELSE IF n <= 15 THEN "03_Other/AWAP"
      ELSE "03_Other/SILO"

RECURSIVE AusForcingLoop(_, _, _, _, _)
AusForcingLoop(x, k, gages, cal, cols) ==
  IF k > Len(cols) THEN Ok(x)
  ELSE IF AusForcingDir(cols[k]) = "none" THEN Err("NotImplementedError")
  ELSE IF ~Contains(AusForcingFiles, cols[k]) \/ AusForcingFileDir(cols[k]) # AusForcingDir(cols[k])
       THEN Err("FileNotFoundError")
  ELSE IF \E i \in 1..Len(gages) : ~Contains(FileBasins, gages[i]) THEN Err("KeyError")
  ELSE AusForcingLoop(AusScatterFlow(x, k, gages, cal, cols[k], FALSE), k + 1, gages, cal, cols)

AusReadRelevantCols(gages, t, cols) ==
  LET cal == t_range_days(t)
  IN  AusForcingLoop(FullNaN(Len(gages), Len(cal), Len(cols)), 1, gages, cal, cols)

\* ------------------------------------------------ shared-file reader (IND)
IndFlowColumns == <<"year", "month", "day">> \o FileBasins

\* station_ids = [id_.zfill(5) for id_ in flow_data.columns.values]
IndStationIds == [c \in 1..Len(IndFlowColumns) |-> Zfill(IndFlowColumns[c], 5)]

\* the columns of the requested basins taken in file order
IndInd3Sorted(gages) ==
  LET idx == {IndexOf(IndStationIds, gages[i]) : i \in 1..Len(gages)}
  IN  [i \in 1..Len(gages) |-> CHOOSE c \in idx : Cardinality({z \in idx : z < c}) = i - 1]

\* ind3 = [station_ids.index(tmp) for tmp in gage_id_lst]
IndInd3(gages) == [i \in 1..Len(gages) |-> IndexOf(IndStationIds, gages[i])]

\* column c of streamflow_observed.csv (the basin columns follow the three date columns)
IndFlowColumn(c, var) == Column("IND", c - 3, var)

RECURSIVE IndTargetLoop(_, _, _, _, _)
IndTargetLoop(y, k, gages, cal, cols) ==
  IF k > Len(cols) THEN Ok(y)
  ELSE IF cols[k] # "streamflow_observed" THEN Err("NotImplementedError")
  ELSE IF \E i \in 1..Len(gages) : ~Contains(IndStationIds, gages[i]) THEN Err("ValueError")
  ELSE LET ind3 == IndInd3(gages)
           y1 == [i \in 1..Len(y) |->
                    LET obs == MaskVector(IndFlowColumn(ind3[i], cols[k]))
                        new == Scatter(SeriesOf(y, i, k), obs, srcDates, cal)
                    IN  [p \in 1..Len(y[i]) |-> [y[i][p] EXCEPT ![k] = new[p]]]]
       IN  IndTargetLoop(y1, k + 1, gages, cal, cols)

\* --------------------------------------------------- per-basin-file readers
\* obs = data_temp[var_type].values of the file of `gage', masked when `mask' holds,
\* aligned on the calendar of t
ReadBasinFile(r, gage, t, var, mask) ==
  LET col == Column(r, BasinIndex(r, gage), var)
      obs == IF mask THEN MaskVector(col) ELSE col
  IN  Ok(time_intersect_dynamic_data(obs, srcDates, t))

\* the same for a file that holds the value block `block'
ReadFileBlock(r, block, t, var, mask) ==
  LET col == Column(r, block, var)
      obs == IF mask THEN MaskVector(col) ELSE col
  IN  Ok(time_intersect_dynamic_data(obs, srcDates, t))

\* the mask applied to every variable
read_ch_gage_flow_forcing_MaskAll(gage, t, var) ==
  IF ~HasBasin("CH", gage) THEN Err("FileNotFoundError")
  ELSE IF ~Contains(AllCols("CH"), var) THEN Err("KeyError")
  ELSE ReadBasinFile("CH", gage, t, var, TRUE)

read_ch_gage_flow_forcing(gage, t, var) ==
  IF ~HasBasin("CH", gage) THEN Err("FileNotFoundError")
  ELSE IF ~Contains(AllCols("CH"), var) THEN Err("KeyError")
  ELSE ReadBasinFile("CH", gage, t, var, Contains(TargetCols("CH"), var))

read_de_gage_flow_forcing(gage, t, var) ==
  IF ~HasBasin("DE", gage) THEN Err("FileNotFoundError")
  ELSE IF ~Contains(AllCols("DE"), var) THEN Err("KeyError")
  ELSE ReadBasinFile("DE", gage, t, var, Contains(TargetCols("DE"), var))

\* the basins with a file CAMELS_DK_obs_based_<id>.csv / CAMELS_DK_sim_based_<id>.csv
DkGaugedFiles == {FileBasins[1]}

DkUngaugedFiles == {FileBasins[i] : i \in 2..Len(FileBasins)}

DkIds == Range(FileBasins) \cup {AbsentBasin}

\* the data set as published: every basin has its one file, which holds its own values.
\* dkFiles[id] names the value block held by each of the two files of id, 0 for a file
\* that does not exist
DkPublished ==
  [id \in DkIds |->
     [gauged   |-> IF id \in DkGaugedFiles THEN IndexOf(FileBasins, id) ELSE 0,
      ungauged |-> IF id \in DkUngaugedFiles THEN IndexOf(FileBasins, id) ELSE 0]]

\* the ungauged file tried first
read_dk_gage_flow_forcing_UngaugedFirst(gage, t, var) ==
  LET f == dkFiles[gage]
  IN  IF f.gauged = 0 /\ f.ungauged = 0 THEN Err("UnboundLocalError")
      ELSE IF ~Contains(AllCols("DK"), var) THEN Err("KeyError")
      ELSE ReadFileBlock("DK", IF f.ungauged # 0 THEN f.ungauged ELSE f.gauged, t, var,
                         Contains(TargetCols("DK"), var))

\* gage_file is gage_file1 if it exists, else gage_file2 if that exists, else unbound
read_dk_gage_flow_forcing(gage, t, var) ==
  LET f == dkFiles[gage]
  IN  IF f.gauged = 0 /\ f.ungauged = 0 THEN Err("UnboundLocalError")
      ELSE IF ~Contains(AllCols("DK"), var) THEN Err("KeyError")
      ELSE ReadFileBlock("DK", IF f.gauged # 0 THEN f.gauged ELSE f.ungauged, t, var,
                         Contains(TargetCols("DK"), var))

\* the mask of read_fr_gage_flow_forcing is commented out
read_fr_gage_flow_forcing(gage, t, var) ==
  IF ~HasBasin("FR", gage) THEN Err("FileNotFoundError")
  ELSE IF ~Contains(AllCols("FR"), var) THEN Err("KeyError")
  ELSE ReadBasinFile("FR", gage, t, var, FALSE)

\* a file catchment_id_<id>_<name>.csv of the flow directory and the value block it holds
SeFile(id, name, block) ==
  [name |-> "catchment_id_" \o id \o "_" \o name \o ".csv", block |-> block]

\* os.listdir of the flow directory as published: one file for every basin
SeFlowDirListing == [i \in 1..Len(FileBasins) |-> SeFile(FileBasins[i], "A", i)]

\* regex.search(filename) for the pattern 'catchment_id_' + gage_id + '_.*\.csv'
SeRegexSearch(gage, filename) ==
  LET head == "catchment_id_" \o gage \o "_"
  IN  \E i \in 1..(Len(filename) - Len(head) + 1) :
         /\ SubSeq(filename, i, i + Len(head) - 1) = head
         /\ \E j \in (i + Len(head))..(Len(filename) - 3) :
               SubSeq(filename, j, j + 3) = ".csv"

\* the position in the listing of the last file name that matches, 0 when none does
\* (match_file stays "")
SeMatchFile(gage) ==
  LET hits == {i \in 1..Len(seFiles) : SeRegexSearch(gage, seFiles[i].name)}
  IN  IF hits = {} THEN 0 ELSE CHOOSE i \in hits : \A j \in hits : j <= i

read_se_gage_flow_forcing(gage, t, var) ==
  IF SeMatchFile(gage) = 0 THEN Err("IsADirectoryError")
  ELSE IF ~Contains(AllCols("SE"), var) THEN Err("KeyError")
  ELSE ReadFileBlock("SE", seFiles[SeMatchFile(gage)].block, t, var,
                     Contains(TargetCols("SE"), var))

read_ind_gage_forcing(gage, t, var) ==
  IF ~HasBasin("IND", gage) THEN Err("FileNotFoundError")
  ELSE IF ~Contains(get_relevant_cols("IND"), var) THEN Err("KeyError")
  ELSE ReadBasinFile("IND", gage, t, var, FALSE)

\* str(flow_dir) of the n-th entry of CAMELS_FLOW_DIR
BrFlowDirPath(n) ==
  LET d == "03_CAMELS_BR_" \o TargetCols("BR")[n] IN "camels_br/" \o d \o "/" \o d

\* str(_dir) of the n-th entry of CAMELS_FORCING_DIR (numbered 05 to 13)
BrForcingDirPath(n) ==
  LET d == Zfill(ToString(n + 4), 2) \o "_CAMELS_BR_" \o BrForcingDirs[n]
  IN  "camels_br/" \o d \o "/" \o d

\* the name a flow type has in the file names <id>_<name>.txt
BrFlowSuffix(flow_type) ==
  IF flow_type = "streamflow_mm_selected_catchments" THEN "streamflow_mm" ELSE flow_type

\* the name a forcing type has in the file names: var_type[:-4] for the temperatures
BrForcingSuffix(var_type) ==
  IF var_type \in {"temperature_min_cpc", "temperature_mean_cpc", "temperature_max_cpc"}
  THEN SubSeq(var_type, 1, Len(var_type) - 4) ELSE var_type

\* [str(d) for d in CAMELS_FLOW_DIR if flow_type in str(d)][0], obs = iloc[:, 3], masked
read_br_gage_flow(gage, t, var) ==
  LET hits == {n \in 1..Len(TargetCols("BR")) : StrIn(var, BrFlowDirPath(n))}
      n    == CHOOSE h \in hits : \A g \in hits : h <= g
  IN  IF hits = {} THEN Err("IndexError")
      ELSE IF ~HasBasin("BR", gage) \/ BrFlowSuffix(var) # BrFlowSuffix(TargetCols("BR")[n])
           THEN Err("FileNotFoundError")
      ELSE ReadBasinFile("BR", gage, t, TargetCols("BR")[n], TRUE)

\* [str(d) for d in CAMELS_FORCING_DIR if var_type in str(d)][0], obs = iloc[:, 3]
read_br_basin_forcing(gage, t, var) ==
  LET hits == {n \in 1..Len(BrForcingDirs) : StrIn(var, BrForcingDirPath(n))}
      n    == CHOOSE h \in hits : \A g \in hits : h <= g
  IN  IF hits = {} THEN Err("IndexError")
      ELSE IF ~HasBasin("BR", gage) \/ BrForcingSuffix(var) # BrForcingSuffix(BrForcingDirs[n])
           THEN Err("FileNotFoundError")
      ELSE ReadBasinFile("BR", gage, t, BrForcingDirs[n], FALSE)

\* the per-basin helper a region's read loops call
ReadGage(r, kind, gage, t, var) ==
  CASE r = "BR"  -> IF kind = "target" THEN read_br_gage_flow(gage, t, var)
                    ELSE read_br_basin_forcing(gage, t, var)
    [] r = "CH"  -> read_ch_gage_flow_forcing(gage, t, var)
    [] r = "DE"  -> read_de_gage_flow_forcing(gage, t, var)
    [] r = "DK"  -> read_dk_gage_flow_forcing(gage, t, var)
    [] r = "FR"  -> read_fr_gage_flow_forcing(gage, t, var)
    [] r = "IND" -> read_ind_gage_forcing(gage, t, var)
    [] r = "SE"  -> read_se_gage_flow_forcing(gage, t, var)

\* y[j, :, k] = helper(...): the basin and the variable axes exchanged
PerBasinLoopSwapped(r, kind, gages, t, cols) ==
  LET got == [j \in 1..Len(cols) |-> [k \in 1..Len(gages) |-> ReadGage(r, kind, gages[k], t, cols[j])]]
      bad == {jk \in (1..Len(cols)) \X (1..Len(gages)) : ~got[jk[1]][jk[2]].ok}
      first == CHOOSE a \in bad : \A b \in bad : a[1] < b[1] \/ (a[1] = b[1] /\ a[2] <= b[2])
      nt == Len(t_range_days(t))
  IN  IF bad # {} THEN Err(got[first[1]][first[2]].err)
      ELSE Ok([j \in 1..Len(cols) |-> [p \in 1..nt |-> [k \in 1..Len(gages) |-> got[j][k].val[p]]]])

\* for j in range(len(cols)): for k in range(len(gages)): y[k, :, j] = helper(...)
PerBasinLoop(r, kind, gages, t, cols) ==
  LET got == [j \in 1..Len(cols) |-> [k \in 1..Len(gages) |-> ReadGage(r, kind, gages[k], t, cols[j])]]
      bad == {jk \in (1..Len(cols)) \X (1..Len(gages)) : ~got[jk[1]][jk[2]].ok}
      first == CHOOSE a \in bad : \A b \in bad : a[1] < b[1] \/ (a[1] = b[1] /\ a[2] <= b[2])
      nt == Len(t_range_days(t))
  IN  IF bad # {} THEN Err(got[first[1]][first[2]].err)
      ELSE Ok([k \in 1..Len(gages) |-> [p \in 1..nt |-> [j \in 1..Len(cols) |-> got[j][k].val[p]]]])

\* the final unit step of a per-basin region's read_target_cols
FinalUnit(r, y) ==
  IF r = "FR" THEN unit_convert_streamflow_Ltofoot3(y) ELSE unit_convert_streamflow_m3tofoot3(y)

PerBasinReadTargetCols(r, gages, t, cols) ==
  LET got == PerBasinLoop(r, "target", gages, t, cols)
  IN  IF got.ok THEN Ok(FinalUnit(r, got.val)) ELSE got

IndReadTargetCols(gages, t, cols) ==
  LET cal == t_range_days(t)
      r   == IndTargetLoop(FullNaN(Len(gages), Len(cal), Len(cols)), 1, gages, cal, cols)
  IN  IF r.ok THEN Ok(unit_convert_streamflow_m3tofoot3(r.val)) ELSE r

\* ------------------------------------------------------ attribute tables
\* a cell of a parsed attribute table: a number, a string or a missing value
NumCell(n) == [kind |-> "num", n |-> n, s |-> ""]

StrCell(s) == [kind |-> "str", n |-> 0, s |-> s]

NACell == [kind |-> "na", n |-> 0, s |-> ""]

\* an element of the attribute matrix
ANaN == [nan |-> TRUE, n |-> 0]

ANum(n) == [nan |-> FALSE, n |-> n]

\* the string levels of the modelled tables, in lexical order
Levels == <<"A", "B", "C">>

LexLess(a, b) == IndexOf(Levels, a) < IndexOf(Levels, b)

\* sorted(S) for a set of strings
SortLex(S) ==
  CHOOSE s \in InjSeqs(S, Cardinality(S), Cardinality(S)) :
     \A i, j \in 1..Len(s) : i < j => LexLess(s[i], s[j])

\* a Python dict as the list of its items in insertion order; d[key] = val
DictSet(d, key, val) ==
  IF \E i \in 1..Len(d) : d[i].key = key
  THEN [i \in 1..Len(d) |-> IF d[i].key = key THEN [key |-> key, val |-> val] ELSE d[i]]
  ELSE Append(d, [key |-> key, val |-> val])

DictHas(d, key) == \E i \in 1..Len(d) : d[i].key = key

DictGet(d, key) == d[CHOOSE i \in 1..Len(d) : d[i].key = key].val

\* pd.factorize(column): the distinct strings in order of first appearance
FactorizeRefUnsorted(col) ==
  LET S == {col[i].s : i \in {j \in 1..Len(col) : col[j].kind = "str"}}
      first(v) == CHOOSE i \in 1..Len(col) : col[i].s = v /\ \A j \in 1..(i - 1) : col[j].s # v
  IN  CHOOSE s \in InjSeqs(S, Cardinality(S), Cardinality(S)) :
         \A a, b \in 1..Len(s) : a < b => first(s[a]) < first(s[b])

\* pd.factorize(column, sort=True): the sorted distinct strings and, row by row,
\* the position of the row's string in them, -1 for a missing value
FactorizeRef(col) == SortLex({col[i].s : i \in {j \in 1..Len(col) : col[j].kind = "str"}})

FactorizeValue(col) ==
  [i \in 1..Len(col) |->
     IF col[i].kind = "str" THEN ANum(IndexOf(FactorizeRef(col), col[i].s) - 1) ELSE ANum(0 - 1)]

\* is_string_dtype of an object column: with pandas before 2.0 any object column,
\* from 2.0 on only a column whose every element is a string
is_string_dtype(col, legacy) ==
  /\ \E i \in 1..Len(col) : col[i].kind = "str"
  /\ legacy \/ \A i \in 1..Len(col) : col[i].kind = "str"

is_numeric_dtype(col) == \A i \in 1..Len(col) : col[i].kind # "str"

NumericValues(col) ==
  [i \in 1..Len(col) |-> IF col[i].kind = "num" THEN ANum(col[i].n) ELSE ANaN]

\* out[:, k] = vals: numpy broadcasts a vector of the same length or of length one
AssignColumn(out, k, vals) ==
  IF Len(vals) = Len(out) THEN Ok([i \in 1..Len(out) |-> [out[i] EXCEPT ![k] = vals[i]]])
  ELSE IF Len(vals) = 1 THEN Ok([i \in 1..Len(out) |-> [out[i] EXCEPT ![k] = vals[1]]])
  ELSE Err("ValueError")

RECURSIVE AttrFieldLoop(_, _, _, _, _)
\* for field in var_lst: factorize a string column, copy a numeric one
AttrFieldLoop(out, f_dict, k, tab, legacy) ==
  IF k > Len(tab.names) THEN Ok([out |-> out, f_dict |-> f_dict])
  ELSE LET col == tab.cols[k]
       IN  IF is_string_dtype(col, legacy)
           THEN LET a == AssignColumn(out, k, FactorizeValue(col))
                IN  IF a.ok
                    THEN AttrFieldLoop(a.val, DictSet(f_dict, tab.names[k], FactorizeRef(col)),
                                       k + 1, tab, legacy)
                    ELSE a
           ELSE IF is_numeric_dtype(col)
           THEN LET a == AssignColumn(out, k, NumericValues(col))
                IN  IF a.ok THEN AttrFieldLoop(a.val, f_dict, k + 1, tab, legacy) ELSE a
           ELSE AttrFieldLoop(out, f_dict, k + 1, tab, legacy)

\* np.full([n_gage, len(var_lst)], np.nan)
AttrFullNaN(ng, nv) == [i \in 1..ng |-> [k \in 1..nv |-> ANaN]]

AttrResult(out, var_lst, var_dict, f_dict) ==
  Ok([out |-> out, var_lst |-> var_lst, var_dict |-> var_dict, f_dict |-> f_dict])

\* CamelsAus.read_attr_all: the master table is attrFiles[1]
AusReadAttrAll(files, gages, legacy) ==
  LET tab == files[1].tab
      got == AttrFieldLoop(AttrFullNaN(Len(gages), Len(tab.names)), <<>>, 1, tab, legacy)
  IN  IF got.ok THEN AttrResult(got.val.out, tab.names, <<>>, got.val.f_dict) ELSE got

\* the new block put before the blocks gathered so far
ConcatColumnsReversed(a, b) == [i \in 1..Len(a) |-> b[i] \o a[i]]

\* np.concatenate(out_lst, 1) of two blocks
ConcatColumns(a, b) == [i \in 1..Len(a) |-> a[i] \o b[i]]

RECURSIVE KeyLoop(_, _, _, _, _, _, _, _, _)
\* for key in key_lst: read the key's table, `stale' is the table of data_file
\* as the previous pass left it (FR keeps data_file when no candidate exists)
KeyLoop(r, files, j, gages, legacy, out, var_lst, var_dict, f_dict) ==
  IF j > Len(files) THEN AttrResult(out, var_lst, var_dict, f_dict)
  ELSE LET found == IF r = "FR" THEN files[j].static \/ files[j].stats ELSE files[j].static
           back  == IF r = "FR" /\ j > 1 /\ \E h \in 1..(j - 1) : files[h].static \/ files[h].stats
                    THEN CHOOSE h \in 1..(j - 1) :
                           /\ files[h].static \/ files[h].stats
                           /\ \A g \in (h + 1)..(j - 1) : ~(files[g].static \/ files[g].stats)
                    ELSE 0
       IN  IF ~found /\ r # "FR" THEN Err("FileNotFoundError")
           ELSE IF ~found /\ back = 0 THEN Err("UnboundLocalError")
           ELSE LET tab == IF found THEN files[j].tab ELSE files[back].tab
                    got == AttrFieldLoop(AttrFullNaN(Len(gages), Len(tab.names)), f_dict, 1,
                                         tab, legacy)
                IN  IF ~got.ok THEN got
                    ELSE KeyLoop(r, files, j + 1, gages, legacy,
                                 ConcatColumns(out, got.val.out), var_lst \o tab.names,
                                 DictSet(var_dict, files[j].key, tab.names), got.val.f_dict)

\* CamelsCh.read_attr_all, CamelsFr.read_attr_all
KeyedReadAttrAll(r, files, gages, legacy) ==
  KeyLoop(r, files, 1, gages, legacy, [i \in 1..Len(gages) |-> <<>>], <<>>, <<>>, <<>>)

\* the table cut down to the rows of the basins in `gages', in table order
RowsOf(tab, gages) ==
  LET keep == {i \in 1..Len(tab.ids) : tab.ids[i] \in Range(gages)}
      sel(col) == [n \in 1..Cardinality(keep) |->
                     col[CHOOSE i \in keep : Cardinality({h \in keep : h < i}) = n - 1]]
  IN  [ids |-> sel(tab.ids), names |-> tab.names,
       cols |-> [k \in 1..Len(tab.cols) |-> sel(tab.cols[k])]]

\* the tables cut down to the requested basins before they are factorized
read_attr_all_RequestedRows(r, files, gages, legacy) ==
  LET cut == [j \in 1..Len(files) |-> [files[j] EXCEPT !.tab = RowsOf(files[j].tab, gages)]]
  IN  IF r = "AUS" THEN AusReadAttrAll(cut, gages, legacy)
      ELSE KeyedReadAttrAll(r, cut, gages, legacy)

read_attr_all(r, files, gages, legacy) ==
  IF r = "AUS" THEN AusReadAttrAll(files, gages, legacy)
  ELSE KeyedReadAttrAll(r, files, gages, legacy)

\* ------------------------------------------------------- the two read calls
\* Python's None passed for the list of names: a value that is no list of names
None == <<"<None>">>

\* if target_cols is None: return np.array([]), an array of shape (0,)
read_target_cols(r, gages, t, cols) ==
  CASE cols = None -> Ok(<<>>)
    [] r = "AUS" -> AusReadTargetCols(gages, t, cols)
    [] r = "IND" -> IndReadTargetCols(gages, t, cols)
    [] OTHER     -> PerBasinReadTargetCols(r, gages, t, cols)

\* len(var_lst) of None raises TypeError
read_relevant_cols(r, gages, t, cols) ==
  CASE cols = None -> Err("TypeError")
    [] r = "AUS" -> AusReadRelevantCols(gages, t, cols)
    [] OTHER     -> PerBasinLoop(r, "forcing", gages, t, cols)

\* ------------------------------------------------------------ the requests
ReqBasins(r) == {GageId(r, FileBasins[i]) : i \in 1..Len(FileBasins)} \cup {GageId(r, AbsentBasin)}

ReqGages(r) == InjSeqs(ReqBasins(r), 1, MaxGages)

ReqRanges == {t \in (1..MaxDay) \X (2..(MaxDay + 1)) : t[1] < t[2]}

\* names that are no target variable of the region: one that matches nothing, and
\* for BR parts of the name of the flow directory
UnknownTargets(r) ==
  {"unknown_var"} \cup (IF r = "BR" THEN {"streamflow_mm", "streamflow"} ELSE {})

\* names that are no forcing variable of the region: one that matches nothing, for
\* AUS one that matches a directory pattern, for BR parts of the name of a directory
UnknownForcings(r) ==
  {"unknown_var"} \cup (IF r = "AUS" THEN {"precipitation_none"} ELSE {})
                 \cup (IF r = "BR" THEN {"temperature_min", "precipitation"} ELSE {})

\* the requests for an unknown name: alone, and after a name of the region
WithUnknown(known, unknown) ==
  {<<u>> : u \in unknown} \cup {<<known[1], u>> : u \in unknown}

ReqTargets(r) == InjSeqs(Range(TargetCols(r)), 1, MaxCols) \cup {None}

ReqForcings(r) == InjSeqs(Range(Prefix(get_relevant_cols(r), MaxForcing)), 1, MaxCols) \cup {None}

NoReq == [op |-> "none", region |-> "none", gages |-> <<>>, t |-> <<1, 1>>, cols |-> <<>>]

NoRes == [status |-> "none", err |-> "", y |-> <<>>]

Outcome(got) == IF got.ok THEN [status |-> "ok", err |-> "", y |-> got.val]
                ELSE [status |-> "error", err |-> got.err, y |-> <<>>]

\* ------------------------------------------------- the attribute data sets
AttrRegions == {"AUS", "CH", "FR"}

\* the rows of an attribute file, in file order (not sorted)
AttrBasins == <<"3002", "3001", "3004", "3003">>

AttrKeyLst(r) ==
  CASE r = "AUS" -> <<"master">>
    [] r = "CH"  -> <<"climate", "geology", "glacier", "humaninfluence", "hydrogeology",
                      "hydrology", "landcover", "soil", "topographic", "catchment">>
    [] r = "FR"  -> <<"geology", "human_influences_dams", "hydrogeology", "land_cover",
                      "station_general", "topography_general", "climatic_statistics",
                      "hydroclimatic_statistics_joint_availability_yearly",
                      "hydrological_signatures", "hydrometry_statistics">>

\* the table of the j-th key: an identifier column, a numeric column that tells the
\* basins and the files apart, and a string column (catv, read backwards in the
\* files of even j)
AttrTable(key, j, catv) ==
  LET n == Len(catv)
      cell(s) == IF s = "NA" THEN NACell ELSE StrCell(s)
  IN  [ids   |-> Prefix(AttrBasins, n),
       names |-> <<key \o "_num", key \o "_cls">>,
       cols  |-> << [i \in 1..n |-> NumCell(10 * i + j)],
                   [i \in 1..n |-> cell(IF j % 2 = 1 THEN catv[i] ELSE catv[n + 1 - i])] >>]

\* the files of a region: of FR's two candidate directories the odd keys have the
\* static_attributes file, the even keys the time_series_statistics file
AttrFilesOf(r, catv) ==
  LET keys == Prefix(AttrKeyLst(r), MaxKeys)
  IN  [j \in 1..Len(keys) |->
         [key |-> keys[j], static |-> (r # "FR" \/ j % 2 = 1), stats |-> (r = "FR" /\ j % 2 = 0),
          tab |-> AttrTable(keys[j], j, catv)]]

NoAReq == [region |-> "none", gages |-> <<>>, legacy |-> FALSE]

NoARes == [status |-> "none", err |-> "", out |-> <<>>, var_lst |-> <<>>, var_dict |-> <<>>,
           f_dict |-> <<>>]

AttrOutcome(got) ==
  IF got.ok THEN [status |-> "ok", err |-> "", out |-> got.val.out, var_lst |-> got.val.var_lst,
                  var_dict |-> got.val.var_dict, f_dict |-> got.val.f_dict]
  ELSE [NoARes EXCEPT !.status = "error", !.err = got.err]

\* ------------------------------------------------------------- the cache
\* the fields of the adapter object the cache methods use: self.gage, self.time_range,
\* and the cache key (region, kind of data) of the two files
NoObj == [region |-> "none", kind |-> "none", gage |-> <<>>, time_range |-> <<1, 1>>]

AbsentFile == [present |-> FALSE, content |-> <<>>]

File(content) == [present |-> TRUE, content |-> content]

\* the .npy array file and the .json sidecar of the cache key
NoCache == [npy |-> AbsentFile, json |-> AbsentFile]

NoCReq == [op |-> "none", npy |-> FALSE, json |-> FALSE]

NoWriter == [calls |-> 0, npy |-> 0, json |-> 0]

NoCRes == [status |-> "none", err |-> "", data |-> <<>>, steps |-> <<>>]

\* hydro_time.t2str: a day as its date string
t2str(day) == "2000-01-0" \o ToString(day)

\* the day of a date string
ParseDay(str) == CHOOSE day \in 0..9 : t2str(day) = str

\* 'prcp(mm/day)' -> 'prcp': the name without its unit suffix
StripUnit(name) ==
  LET opens == {i \in 1..Len(name) : SubSeq(name, i, i) = "("}
  IN  IF opens = {} THEN name
      ELSE SubSeq(name, 1, (CHOOSE i \in opens : \A j \in opens : i <= j) - 1)

delete_variables_unit(variables) == [k \in 1..Len(variables) |-> StripUnit(variables[k])]

\* variables = self.get_target_cols() / self.get_relevant_cols()
CacheVariables(r, kind) == IF kind = "streamflow" THEN TargetCols(r) ELSE get_relevant_cols(r)

\* the outcome of a cache method: the two files as it leaves them, its result or
\* error, and the file operations it made
CacheStep(c, ok, err, data, steps) ==
  [cache |-> c, ok |-> ok, err |-> err, data |-> data, steps |-> steps]

\* the one element of a set of one element
The(S) == CHOOSE x \in S : TRUE

\* data = self.read_target_cols(...) / self.read_relevant_cols(...) for all variables
CacheSource(o, variables) ==
  IF o.kind = "streamflow"
  THEN read_target_cols(o.region, o.gage, o.time_range, variables)
  ELSE read_relevant_cols(o.region, o.gage, o.time_range, variables)

\* np.save(cache_npy_file, data) once the source was read; c1 holds the sidecar
CacheSave(c1, got) ==
  IF got.ok
  THEN CacheStep([c1 EXCEPT !.npy = File(got.val)], TRUE, "", got.val,
                 <<"write_json", "read_source", "write_npy">>)
  ELSE CacheStep(c1, FALSE, got.err, <<>>, <<"write_json", "read_source">>)

\* data_info: the sidecar's content
data_info(o) ==
  LET cal == t_range_days(o.time_range)
  IN  [dim      |-> <<"basin", "time", "variable">>,
       basin    |-> o.gage,
       time     |-> [p \in 1..Len(cal) |-> t2str(cal[p])],
       variable |-> delete_variables_unit(CacheVariables(o.region, o.kind))]

\* the sidecar's basin list written in another order than the rows of the array
cache_np_json_BasinsReordered(o, c) ==
  LET variables == CacheVariables(o.region, o.kind)
      cal       == t_range_days(o.time_range)
      info      == [dim      |-> <<"basin", "time", "variable">>,
                    basin    |-> [i \in 1..Len(o.gage) |-> o.gage[Len(o.gage) + 1 - i]],
                    time     |-> [p \in 1..Len(cal) |-> t2str(cal[p])],
                    variable |-> delete_variables_unit(variables)]
      c1        == [c EXCEPT !.json = File(info)]
  IN  The({CacheSave(c1, got) : got \in {CacheSource(o, variables)}})

\* cache_streamflow_np_json / cache_forcing_np_json: the sidecar is written first,
\* then the source is read, then the array is saved
cache_np_json(o, c) ==
  LET variables == CacheVariables(o.region, o.kind)
      c1        == [c EXCEPT !.json = File(data_info(o))]
  IN  The({CacheSave(c1, got) : got \in {CacheSource(o, variables)}})

\* np.load and the sidecar read after the step w, which recomputed the files or left
\* them alone: the data set built from the two files
XrLoad(w) ==
  IF ~w.ok THEN w
  ELSE LET streamflow == w.cache.npy.content
           d          == w.cache.json.content
           nt         == Len(d.time)
       IN  IF nt = 0
           THEN CacheStep(w.cache, FALSE, "IndexError", <<>>,
                          w.steps \o <<"load_npy", "load_json">>)
           ELSE CacheStep(w.cache, TRUE, "",
                  [basin      |-> d.basin,
                   time       |-> [p \in 1..nt |-> ParseDay(d.time[1]) + p - 1],
                   streamflow |-> [i \in 1..Len(streamflow) |->
                                     [p \in 1..Len(streamflow[i]) |-> streamflow[i][p][1]]]],
                  w.steps \o <<"load_npy", "load_json">>)

\* the cache recomputed on every call
cache_streamflow_xrdataset_Always(o, c) ==
  The({XrLoad(w) : w \in {cache_np_json(o, c)}})

\* cache_streamflow_xrdataset: recompute when a file is missing, then load both files
cache_streamflow_xrdataset(o, c) ==
  The({XrLoad(w) : w \in {IF ~c.npy.present \/ ~c.json.present THEN cache_np_json(o, c)
                          ELSE CacheStep(c, TRUE, "", <<>>, <<>>)}})

\* the cache keys with a cache method in the adapters
CacheKeys == {<<"CH", "streamflow">>, <<"CH", "forcing">>, <<"IND", "forcing">>,
              <<"IND", "streamflow">>, <<"BR", "streamflow">>}

CacheRanges == {t \in ReqRanges : t[1] = 1}

\* source files whose rows stand in date order from the first day on
SortedDates == {[i \in 1..n |-> i] : n \in 1..(IF MaxRows < MaxDay THEN MaxRows ELSE MaxDay)}

CacheOutcome(w) ==
  [status |-> IF w.ok THEN "ok" ELSE "error", err |-> w.err, data |-> w.data, steps |-> w.steps]

\* ------------------------------------------- cache files written in pieces
Procs == {1, 2}

\* a piece of a file that no write has filled
Hole == [filled |-> FALSE, v |-> <<>>]

\* a piece of the file written with its part of the value v
Piece(v) == [filled |-> TRUE, v |-> v]

NoRFile == [present |-> FALSE, chunks |-> <<>>]

NoRFiles == [npy |-> NoRFile, json |-> NoRFile]

NoProc == [pc |-> "off", base |-> 0, k |-> 1, data |-> <<>>, arr |-> <<>>, err |-> "",
           out |-> <<>>]

\* a file opened for appending: its content is kept and the writes go behind it
OpenForAppend(f) == [file |-> [present |-> TRUE, chunks |-> f.chunks], base |-> Len(f.chunks)]

\* open(file, "w") and np.save's open: the file exists and is empty, the writes of
\* this handle start at its beginning
OpenForWrite(f) == [file |-> [present |-> TRUE, chunks |-> <<>>], base |-> 0]

\* the piece at position pos written with the piece of value v; a write behind the end
\* of the file leaves a hole
WriteChunk(f, pos, v) ==
  LET n == IF pos > Len(f.chunks) THEN pos ELSE Len(f.chunks)
  IN  [present |-> TRUE,
       chunks  |-> [i \in 1..n |-> IF i = pos THEN Piece(v)
                                   ELSE IF i <= Len(f.chunks) THEN f.chunks[i] ELSE Hole]]

\* the file holds every piece of one value and nothing else
Complete(f) ==
  /\ f.present
  /\ Len(f.chunks) = MaxChunks
  /\ \A i \in 1..MaxChunks : f.chunks[i].filled
  /\ \A i \in 1..MaxChunks : f.chunks[i].v = f.chunks[1].v

\* np.load / json.load of a file
LoadFile(f) ==
  IF ~f.present THEN Err("FileNotFoundError")
  ELSE IF ~Complete(f) THEN Err("ValueError")
  ELSE Ok(f.chunks[1].v)

\* the two files as a process that finds them whole or absent sees them
AsCache(fs) ==
  [npy  |-> IF Complete(fs.npy) THEN File(fs.npy.chunks[1].v) ELSE AbsentFile,
   json |-> IF Complete(fs.json) THEN File(fs.json.chunks[1].v) ELSE AbsentFile]

\* whole files with the content of cache files
AsRFiles(c) ==
  [npy  |-> IF c.npy.present
            THEN [present |-> TRUE, chunks |-> [i \in 1..MaxChunks |-> Piece(c.npy.content)]]
            ELSE NoRFile,
   json |-> IF c.json.present
            THEN [present |-> TRUE, chunks |-> [i \in 1..MaxChunks |-> Piece(c.json.content)]]
            ELSE NoRFile]

\* ---------------------------------------------------------- the behaviours
NoDRes == [op |-> "none", status |-> "none", err |-> "", val |-> <<>>]

DescOutcome(op, got) ==
  [op |-> op, status |-> IF got.ok THEN "ok" ELSE "error", err |-> got.err, val |-> got.val]

\* an AUS object over the published forcing directory, nothing asked of it yet
InitDesc ==
  /\ ausRegion = "AUS"
  /\ ausFiles = AusForcingListing
  /\ dres = NoDRes

\* no process runs a cache method
InitNoRace ==
  /\ procs = [p \in Procs |-> NoProc]
  /\ rfiles = NoRFiles

\* the DK and SE directories as published
InitFiles ==
  /\ dkFiles = DkPublished
  /\ seFiles = SeFlowDirListing

Init ==
  /\ srcDates \in InjSeqs(1..MaxDay, 0, MaxRows)
  /\ negDays \in {S \in SUBSET Range(srcDates) : Cardinality(S) <= MaxNegDays}
  /\ req = NoReq
  /\ res = NoRes
  /\ pc = "idle"
  /\ attrFiles = <<>>
  /\ areq = NoAReq
  /\ ares = NoARes
  /\ ares2 = NoARes
  /\ obj = NoObj
  /\ cache = NoCache
  /\ writer = NoWriter
  /\ creq = NoCReq
  /\ cres = NoCRes
  /\ InitDesc
  /\ InitFiles
  /\ InitNoRace

ReadTargetCols ==
  /\ pc = "idle"
  /\ \E r \in Regions : \E gages \in ReqGages(r) : \E t \in ReqRanges : \E cols \in ReqTargets(r) :
       /\ req' = [op |-> "read_target_cols", region |-> r, gages |-> gages, t |-> t, cols |-> cols]
       /\ res' = Outcome(read_target_cols(r, gages, t, cols))
  /\ pc' = "done"
  /\ UNCHANGED <<srcDates, negDays, attrVars, cacheVars, descVars, fileVars, raceVars>>

ReadRelevantCols ==
  /\ pc = "idle"
  /\ \E r \in Regions : \E gages \in ReqGages(r) : \E t \in ReqRanges : \E cols \in ReqForcings(r) :
       /\ req' = [op |-> "read_relevant_cols", region |-> r, gages |-> gages, t |-> t, cols |-> cols]
       /\ res' = Outcome(read_relevant_cols(r, gages, t, cols))
  /\ pc' = "done"
  /\ UNCHANGED <<srcDates, negDays, attrVars, cacheVars, descVars, fileVars, raceVars>>

Next == ReadTargetCols \/ ReadRelevantCols

Spec == Init /\ [][Next]_vars

InitAttr ==
  /\ srcDates = <<>>
  /\ negDays = {}
  /\ req = NoReq
  /\ res = NoRes
  /\ pc = "idle"
  /\ \E n \in 1..(IF MaxAttrRows < Len(AttrBasins) THEN MaxAttrRows ELSE Len(AttrBasins)) :
       \E catv \in [1..n -> Range(Levels) \cup {"NA"}] :
          attrFiles = [r \in AttrRegions |-> AttrFilesOf(r, catv)]
  /\ areq = NoAReq
  /\ ares = NoARes
  /\ ares2 = NoARes
  /\ obj = NoObj
  /\ cache = NoCache
  /\ writer = NoWriter
  /\ creq = NoCReq
  /\ cres = NoCRes
  /\ InitDesc
  /\ InitFiles
  /\ InitNoRace

\* the basin lists asked of a table with the rows `ids': basins of the table in any
\* order, all or some of them, and the same lists with an absent basin standing first
AttrReqGages(ids) ==
  LET present == InjSeqs(Range(ids), 1, Len(ids))
  IN  present \cup {[g EXCEPT ![1] = AbsentBasin] : g \in present}

ReadAttrAll ==
  /\ pc = "idle"
  /\ \E r \in AttrRegions : \E legacy \in BOOLEAN :
       \E gages \in AttrReqGages(attrFiles[r][1].tab.ids) :
          /\ areq' = [region |-> r, gages |-> gages, legacy |-> legacy]
          /\ ares' = AttrOutcome(read_attr_all(r, attrFiles[r], gages, legacy))
  /\ pc' = "done"
  /\ UNCHANGED <<srcDates, negDays, req, res, attrFiles, ares2, cacheVars, descVars, fileVars, raceVars>>

\* the lists of the first call kept and extended by the second
ReadAttrAllAgainCarry ==
  /\ pc = "done" /\ areq.region \in AttrRegions
  /\ LET got == AttrOutcome(read_attr_all(areq.region, attrFiles[areq.region], areq.gages,
                                          areq.legacy))
     IN  ares2' = [got EXCEPT !.var_lst = ares.var_lst \o got.var_lst]
  /\ pc' = "again"
  /\ UNCHANGED <<srcDates, negDays, req, res, attrFiles, areq, ares, cacheVars, descVars, fileVars, raceVars>>

\* the same object asked again for the same basins over the same files
ReadAttrAllAgain ==
  /\ pc = "done" /\ areq.region \in AttrRegions
  /\ ares2' = AttrOutcome(read_attr_all(areq.region, attrFiles[areq.region], areq.gages,
                                        areq.legacy))
  /\ pc' = "again"
  /\ UNCHANGED <<srcDates, negDays, req, res, attrFiles, areq, ares, cacheVars, descVars, fileVars, raceVars>>

NextAttr == ReadAttrAll \/ ReadAttrAllAgain

SpecAttr == InitAttr /\ [][NextAttr]_vars

\* ----------------------------------- reads over other attribute directories
\* the table of the j-th key with, when `shared', one more string column of the same
\* name in every file: the values catv in the files of odd j, 'C' in every row of
\* the files of even j
AttrTableShared(key, j, catv, shared) ==
  LET tab  == AttrTable(key, j, catv)
      n    == Len(catv)
      cell(s) == IF s = "NA" THEN NACell ELSE StrCell(s)
  IN  IF ~shared THEN tab
      ELSE [ids   |-> tab.ids,
            names |-> Append(tab.names, "country"),
            cols  |-> Append(tab.cols,
                             [i \in 1..n |-> IF j % 2 = 1 THEN cell(catv[i]) ELSE StrCell("C")])]

\* which of the two candidate files of a key exist
Candidates == {"static", "stats", "both", "none"}

\* the files of a region whose j-th key has the candidate files present[j]
AttrDirOf(r, catv, shared, present) ==
  LET keys == Prefix(AttrKeyLst(r), MaxKeys)
  IN  [j \in 1..Len(keys) |->
         [key |-> keys[j], static |-> present[j] \in {"static", "both"},
          stats |-> present[j] \in {"stats", "both"},
          tab |-> AttrTableShared(keys[j], j, catv, shared)]]

InitAttrDirs ==
  /\ srcDates = <<>>
  /\ negDays = {}
  /\ req = NoReq
  /\ res = NoRes
  /\ pc = "idle"
  /\ \E n \in 1..MaxDirRows : \E catv \in [1..n -> Range(Levels) \cup {"NA"}] :
       \E shared \in BOOLEAN : \E present \in [1..MaxKeys -> Candidates] :
          attrFiles = [r \in AttrRegions |-> AttrDirOf(r, catv, shared, present)]
  /\ areq = NoAReq
  /\ ares = NoARes
  /\ ares2 = NoARes
  /\ obj = NoObj
  /\ cache = NoCache
  /\ writer = NoWriter
  /\ creq = NoCReq
  /\ cres = NoCRes
  /\ InitDesc
  /\ InitFiles
  /\ InitNoRace

\* a second call of the same object over the same files for another basin list
ReadAttrAllOther ==
  /\ pc = "done" /\ areq.region \in AttrRegions
  /\ \E gages \in AttrReqGages(attrFiles[areq.region][1].tab.ids) \ {areq.gages} :
       \E got \in {AttrOutcome(read_attr_all(areq.region, attrFiles[areq.region], gages,
                                              areq.legacy))} :
          ares2' = [gages |-> gages, status |-> got.status, err |-> got.err, out |-> got.out,
                    var_lst |-> got.var_lst, var_dict |-> got.var_dict,
                    f_dict |-> got.f_dict]
  /\ pc' = "other"
  /\ UNCHANGED <<srcDates, negDays, req, res, attrFiles, areq, ares, cacheVars, descVars, fileVars, raceVars>>

NextAttrDirs == ReadAttrAll \/ ReadAttrAllOther

SpecAttrDirs == InitAttrDirs /\ [][NextAttrDirs]_vars

\* ------------------------ two processes in cache_streamflow_xrdataset at once
InitRace ==
  /\ srcDates \in SortedDates
  /\ negDays = {}
  /\ req = NoReq
  /\ res = NoRes
  /\ pc = "race"
  /\ attrFiles = <<>>
  /\ areq = NoAReq
  /\ ares = NoARes
  /\ ares2 = NoARes
  /\ \E r \in {"BR", "IND"} : \E gage \in InjSeqs(ReqBasins(r), MaxGages, MaxGages) :
       \E t \in CacheRanges :
          obj = [region |-> r, kind |-> "streamflow", gage |-> gage, time_range |-> t]
  /\ cache = NoCache
  /\ writer = NoWriter
  /\ creq = NoCReq
  /\ cres = NoCRes
  /\ InitDesc
  /\ InitFiles
  /\ procs = [p \in Procs |-> [NoProc EXCEPT !.pc = "check_npy"]]
  /\ rfiles = NoRFiles

\* one step of process p that leaves it at `to'
RaceStep(p, to, fs) ==
  /\ procs' = [procs EXCEPT ![p] = to]
  /\ rfiles' = fs
  /\ UNCHANGED <<srcDates, negDays, req, res, pc, attrVars, cacheVars, descVars, fileVars>>

\* not os.path.isfile(cache_npy_file)
RaceCheckNpy(p) ==
  /\ pc = "race" /\ procs[p].pc = "check_npy"
  /\ RaceStep(p, [procs[p] EXCEPT !.pc = IF rfiles.npy.present THEN "check_json"
                                          ELSE "open_json"], rfiles)

\* or not os.path.isfile(json_file)
RaceCheckJson(p) ==
  /\ pc = "race" /\ procs[p].pc = "check_json"
  /\ RaceStep(p, [procs[p] EXCEPT !.pc = IF rfiles.json.present THEN "load_npy"
                                          ELSE "open_json"], rfiles)

\* with open(json_file, "w") as FP
RaceOpenJson(p) ==
  /\ pc = "race" /\ procs[p].pc = "open_json"
  /\ \E h \in {OpenForWrite(rfiles.json)} :
        RaceStep(p, [procs[p] EXCEPT !.pc = "write_json", !.base = h.base, !.k = 1],
                 [rfiles EXCEPT !.json = h.file])

\* json.dump(data_info, FP, indent=4), piece by piece
RaceWriteJson(p) ==
  /\ pc = "race" /\ procs[p].pc = "write_json"
  /\ RaceStep(p, [procs[p] EXCEPT !.k = @ + 1,
                                  !.pc = IF procs[p].k = MaxChunks THEN "read_source" ELSE @],
              [rfiles EXCEPT !.json = WriteChunk(@, procs[p].base + procs[p].k, data_info(obj))])

\* data = self.read_target_cols(...)
RaceReadSource(p) ==
  /\ pc = "race" /\ procs[p].pc = "read_source"
  /\ \E got \in {CacheSource(obj, CacheVariables(obj.region, obj.kind))} :
        RaceStep(p, IF got.ok THEN [procs[p] EXCEPT !.pc = "open_npy", !.data = got.val]
                    ELSE [procs[p] EXCEPT !.pc = "failed", !.err = got.err], rfiles)

\* np.save(cache_npy_file, data): the file is opened
RaceOpenNpy(p) ==
  /\ pc = "race" /\ procs[p].pc = "open_npy"
  /\ \E h \in {OpenForWrite(rfiles.npy)} :
        RaceStep(p, [procs[p] EXCEPT !.pc = "write_npy", !.base = h.base, !.k = 1],
                 [rfiles EXCEPT !.npy = h.file])

\* np.save(cache_npy_file, data): the array is written, piece by piece
RaceWriteNpy(p) ==
  /\ pc = "race" /\ procs[p].pc = "write_npy"
  /\ RaceStep(p, [procs[p] EXCEPT !.k = @ + 1,
                                  !.pc = IF procs[p].k = MaxChunks THEN "load_npy" ELSE @],
              [rfiles EXCEPT !.npy = WriteChunk(@, procs[p].base + procs[p].k, procs[p].data)])

\* streamflow = np.load(cache_npy_file)
RaceLoadNpy(p) ==
  /\ pc = "race" /\ procs[p].pc = "load_npy"
  /\ \E got \in {LoadFile(rfiles.npy)} :
        RaceStep(p, IF got.ok THEN [procs[p] EXCEPT !.pc = "load_json", !.arr = got.val]
                    ELSE [procs[p] EXCEPT !.pc = "failed", !.err = got.err], rfiles)

\* streamflow_dict = json.load(fp), then the data set is built
RaceLoadJson(p) ==
  /\ pc = "race" /\ procs[p].pc = "load_json"
  /\ \E got \in {LoadFile(rfiles.json)} :
        IF ~got.ok
        THEN RaceStep(p, [procs[p] EXCEPT !.pc = "failed", !.err = got.err], rfiles)
        ELSE \E w \in {XrLoad(CacheStep([npy |-> File(procs[p].arr), json |-> File(got.val)],
                                         TRUE, "", <<>>, <<>>))} :
                RaceStep(p, [procs[p] EXCEPT !.pc = IF w.ok THEN "done" ELSE "failed",
                                             !.err = w.err, !.out = w.data], rfiles)

RaceOver == pc \in {"race", "later"} /\ \A p \in Procs : procs[p].pc \in {"done", "failed"}

\* a call of cache_streamflow_xrdataset by one process after the two have ended
LaterRead ==
  /\ pc = "race" /\ RaceOver
  /\ pc' = "later"
  /\ creq' = [op |-> "cache_streamflow_xrdataset", npy |-> rfiles.npy.present,
              json |-> rfiles.json.present]
  /\ IF (rfiles.npy.present /\ ~Complete(rfiles.npy))
          \/ (rfiles.json.present /\ ~Complete(rfiles.json))
     THEN /\ cres' = [NoCRes EXCEPT !.status = "error", !.err = "ValueError"]
          /\ rfiles' = rfiles
     ELSE \E w \in {cache_streamflow_xrdataset(obj, AsCache(rfiles))} :
             /\ cres' = CacheOutcome(w)
             /\ rfiles' = AsRFiles(w.cache)
  /\ UNCHANGED <<srcDates, negDays, req, res, attrVars, obj, cache, descVars, fileVars, procs, writer>>

NextRace ==
  \/ \E p \in Procs :
        \/ RaceCheckNpy(p) \/ RaceCheckJson(p)
        \/ RaceOpenJson(p) \/ RaceWriteJson(p)
        \/ RaceReadSource(p)
        \/ RaceOpenNpy(p) \/ RaceWriteNpy(p)
        \/ RaceLoadNpy(p) \/ RaceLoadJson(p)
  \/ LaterRead

SpecRace == InitRace /\ [][NextRace]_vars

\* ------------------------------------------- the calls that describe CamelsAus
InitRegion ==
  /\ srcDates = <<>>
  /\ negDays = {}
  /\ req = NoReq
  /\ res = NoRes
  /\ pc = "describe"
  /\ attrFiles = <<>>
  /\ areq = NoAReq
  /\ ares = NoARes
  /\ ares2 = NoARes
  /\ obj = NoObj
  /\ cache = NoCache
  /\ writer = NoWriter
  /\ creq = NoCReq
  /\ cres = NoCRes
  /\ ausRegion \in RegionCodes
  /\ ausFiles \in InjSeqs(AusDirFileNames, 0, MaxFiles)
  /\ dres = NoDRes
  /\ InitFiles
  /\ InitNoRace

SetDataSourceDescribe ==
  /\ pc = "describe"
  /\ dres' = DescOutcome("set_data_source_describe",
                         CamelsAus_set_data_source_describe(ausRegion))
  /\ UNCHANGED <<srcDates, negDays, req, res, pc, attrVars, cacheVars, ausRegion, ausFiles,
                 fileVars, raceVars>>

GetRelevantCols ==
  /\ pc = "describe"
  /\ dres' = DescOutcome("get_relevant_cols", CamelsAus_get_relevant_cols(ausRegion, ausFiles))
  /\ UNCHANGED <<srcDates, negDays, req, res, pc, attrVars, cacheVars, ausRegion, ausFiles,
                 fileVars, raceVars>>

\* the description of an object of one of the other classes
SetDataSourceCamelsDescribe ==
  /\ pc = "describe"
  /\ \E cls \in CamelsClasses :
        dres' = DescOutcome("_set_data_source_camels_describe",
                            [ok |-> TRUE, err |-> "", val |-> CamelsDescribe(cls)])
  /\ UNCHANGED <<srcDates, negDays, req, res, pc, attrVars, cacheVars, ausRegion, ausFiles,
                 fileVars, raceVars>>

\* the forcing variables of an object of a region with a fixed list, read together
\* with the units of its descriptor
ForcingUnits ==
  /\ pc = "describe"
  /\ \E r \in FixedRegions :
        dres' = DescOutcome("forcing_unit",
                            [ok |-> TRUE, err |-> "",
                             val |-> [region |-> r, unit |-> forcing_unit(r),
                                      cols |-> get_relevant_cols(r)]])
  /\ UNCHANGED <<srcDates, negDays, req, res, pc, attrVars, cacheVars, ausRegion, ausFiles,
                 fileVars, raceVars>>

NextRegion ==
  SetDataSourceDescribe \/ GetRelevantCols \/ SetDataSourceCamelsDescribe \/ ForcingUnits

SpecRegion == InitRegion /\ [][NextRegion]_vars

\* ------------------------------------- reads over other DK and SE directories
\* what the two files of the basin with file index bi can hold: nothing (0), the
\* basin's values, or other values
DkFileStates(bi) ==
  LET blocks == {0, bi, bi + Len(FileBasins)}
  IN  [gauged : blocks, ungauged : blocks]

DkDirectories ==
  {d \in [DkIds -> [gauged : 0..(2 * Len(FileBasins)), ungauged : 0..(2 * Len(FileBasins))]] :
      /\ d[AbsentBasin] = [gauged |-> 0, ungauged |-> 0]
      /\ \A bi \in 1..Len(FileBasins) : d[FileBasins[bi]] \in DkFileStates(bi)}

\* two files for every basin, of which a flow directory lists up to MaxFiles in any order
SeCandidates ==
  UNION {{SeFile(FileBasins[bi], "A", bi), SeFile(FileBasins[bi], "B", bi + Len(FileBasins))} :
            bi \in 1..Len(FileBasins)}

InitBasinFiles ==
  /\ srcDates \in SortedDates
  /\ negDays = {}
  /\ req = NoReq
  /\ res = NoRes
  /\ pc = "idle"
  /\ attrFiles = <<>>
  /\ areq = NoAReq
  /\ ares = NoARes
  /\ ares2 = NoARes
  /\ obj = NoObj
  /\ cache = NoCache
  /\ writer = NoWriter
  /\ creq = NoCReq
  /\ cres = NoCRes
  /\ InitDesc
  /\ InitNoRace
  /\ \/ dkFiles \in DkDirectories /\ seFiles = SeFlowDirListing
     \/ dkFiles = DkPublished /\ seFiles \in InjSeqs(SeCandidates, 0, MaxFiles)

ReadFileTarget ==
  /\ pc = "idle"
  /\ \E r \in {"DK", "SE"} : \E gages \in ReqGages(r) : \E t \in CacheRanges :
       \E cols \in ReqTargets(r) :
          /\ req' = [op |-> "read_target_cols", region |-> r, gages |-> gages, t |-> t,
                     cols |-> cols]
          /\ res' = Outcome(read_target_cols(r, gages, t, cols))
  /\ pc' = "done"
  /\ UNCHANGED <<srcDates, negDays, attrVars, cacheVars, descVars, fileVars, raceVars>>

ReadFileForcing ==
  /\ pc = "idle"
  /\ \E r \in {"DK", "SE"} : \E gages \in ReqGages(r) : \E t \in CacheRanges :
       \E cols \in ReqForcings(r) :
          /\ req' = [op |-> "read_relevant_cols", region |-> r, gages |-> gages, t |-> t,
                     cols |-> cols]
          /\ res' = Outcome(read_relevant_cols(r, gages, t, cols))
  /\ pc' = "done"
  /\ UNCHANGED <<srcDates, negDays, attrVars, cacheVars, descVars, fileVars, raceVars>>

NextFiles == ReadFileTarget \/ ReadFileForcing

SpecFiles == InitBasinFiles /\ [][NextFiles]_vars

\* reads that ask for a name the region does not provide
ReadUnknownTarget ==
  /\ pc = "idle"
  /\ \E r \in Regions : \E gages \in ReqGages(r) : \E t \in ReqRanges :
       \E cols \in WithUnknown(TargetCols(r), UnknownTargets(r)) :
          /\ req' = [op |-> "read_target_cols", region |-> r, gages |-> gages, t |-> t,
                     cols |-> cols]
          /\ res' = Outcome(read_target_cols(r, gages, t, cols))
  /\ pc' = "done"
  /\ UNCHANGED <<srcDates, negDays, attrVars, cacheVars, descVars, fileVars, raceVars>>

ReadUnknownForcing ==
  /\ pc = "idle"
  /\ \E r \in Regions : \E gages \in ReqGages(r) : \E t \in ReqRanges :
       \E cols \in WithUnknown(get_relevant_cols(r), UnknownForcings(r)) :
          /\ req' = [op |-> "read_relevant_cols", region |-> r, gages |-> gages, t |-> t,
                     cols |-> cols]
          /\ res' = Outcome(read_relevant_cols(r, gages, t, cols))
  /\ pc' = "done"
  /\ UNCHANGED <<srcDates, negDays, attrVars, cacheVars, descVars, fileVars, raceVars>>

NextNames == ReadUnknownTarget \/ ReadUnknownForcing

SpecNames == Init /\ [][NextNames]_vars

InitCache ==
  /\ srcDates \in InjSeqs(1..MaxDay, 0, MaxRows)
  /\ negDays = {}
  /\ req = NoReq
  /\ res = NoRes
  /\ pc = "cache"
  /\ attrFiles = <<>>
  /\ areq = NoAReq
  /\ ares = NoARes
  /\ ares2 = NoARes
  /\ \E key \in CacheKeys : \E gage \in InjSeqs(ReqBasins(key[1]), MaxGages, MaxGages) :
       \E t \in CacheRanges :
          obj = [region |-> key[1], kind |-> key[2], gage |-> gage, time_range |-> t]
  /\ cache = NoCache
  /\ writer = NoWriter
  /\ creq = NoCReq
  /\ cres = NoCRes
  /\ InitDesc
  /\ InitFiles
  /\ InitNoRace

\* one call of a cache method `step' named op
CacheCall(op, w) ==
  /\ creq' = [op |-> op, npy |-> cache.npy.present, json |-> cache.json.present]
  /\ cache' = w.cache
  /\ cres' = CacheOutcome(w)
  /\ UNCHANGED <<srcDates, negDays, req, res, pc, attrVars, obj, descVars, fileVars, raceVars, writer>>

CacheStreamflowNpJson ==
  /\ pc = "cache" /\ obj.kind = "streamflow"
  /\ \E w \in {cache_np_json(obj, cache)} : CacheCall("cache_streamflow_np_json", w)

CacheForcingNpJson ==
  /\ pc = "cache" /\ obj.kind = "forcing"
  /\ \E w \in {cache_np_json(obj, cache)} : CacheCall("cache_forcing_np_json", w)

CacheStreamflowXrdataset ==
  /\ pc = "cache" /\ obj.kind = "streamflow" /\ obj.region \in {"BR", "IND"}
  /\ \E w \in {cache_streamflow_xrdataset(obj, cache)} :
       CacheCall("cache_streamflow_xrdataset", w)

\* a cache file removed from the cache directory
RemoveCacheFile ==
  /\ pc = "cache"
  /\ \/ cache.npy.present /\ cache' = [cache EXCEPT !.npy = AbsentFile]
     \/ cache.json.present /\ cache' = [cache EXCEPT !.json = AbsentFile]
  /\ creq' = NoCReq
  /\ cres' = NoCRes
  /\ UNCHANGED <<srcDates, negDays, req, res, pc, attrVars, obj, descVars, fileVars, raceVars, writer>>

\* the source files replaced by files without their first row
ChangeSource ==
  /\ pc = "cache" /\ Len(srcDates) > 0
  /\ srcDates' = Tail(srcDates)
  /\ creq' = NoCReq
  /\ cres' = NoCRes
  /\ UNCHANGED <<negDays, req, res, pc, attrVars, obj, cache, descVars, fileVars, raceVars, writer>>

NextCache ==
  \/ CacheStreamflowNpJson
  \/ CacheForcingNpJson
  \/ CacheStreamflowXrdataset
  \/ RemoveCacheFile
  \/ ChangeSource

SpecCache == InitCache /\ [][NextCache]_vars

\* --------------------------------------------- who wrote the cache files
InitWrites ==
  /\ srcDates \in SortedDates
  /\ negDays = {}
  /\ req = NoReq
  /\ res = NoRes
  /\ pc = "writes"
  /\ attrFiles = <<>>
  /\ areq = NoAReq
  /\ ares = NoARes
  /\ ares2 = NoARes
  /\ \E key \in CacheKeys : \E gage \in InjSeqs(ReqBasins(key[1]), MaxGages, MaxGages) :
       \E t \in CacheRanges :
          obj = [region |-> key[1], kind |-> key[2], gage |-> gage, time_range |-> t]
  /\ cache = NoCache
  /\ writer = NoWriter
  /\ creq = NoCReq
  /\ cres = NoCRes
  /\ InitDesc
  /\ InitFiles
  /\ InitNoRace

\* one call of a cache method: the files it wrote are its own from now on
WriteCall(op, w) ==
  /\ writer.calls < MaxCalls
  /\ creq' = [op |-> op, npy |-> cache.npy.present, json |-> cache.json.present]
  /\ cache' = w.cache
  /\ cres' = CacheOutcome(w)
  /\ LET n == writer.calls + 1
     IN  writer' = [calls |-> n,
                    json  |-> IF Contains(w.steps, "write_json") THEN n ELSE writer.json,
                    npy   |-> IF Contains(w.steps, "write_npy") THEN n ELSE writer.npy]
  /\ UNCHANGED <<srcDates, negDays, req, res, pc, attrVars, obj, descVars, fileVars, raceVars>>

WriteNpJson ==
  /\ pc = "writes"
  /\ \E w \in {cache_np_json(obj, cache)} :
       WriteCall(IF obj.kind = "streamflow" THEN "cache_streamflow_np_json"
                 ELSE "cache_forcing_np_json", w)

WriteXrdataset ==
  /\ pc = "writes" /\ obj.kind = "streamflow" /\ obj.region \in {"BR", "IND"}
  /\ \E w \in {cache_streamflow_xrdataset(obj, cache)} :
       WriteCall("cache_streamflow_xrdataset", w)

\* one of the two cache files removed from the cache directory
DeleteCacheFile ==
  /\ pc = "writes"
  /\ \/ /\ cache.npy.present
        /\ cache' = [cache EXCEPT !.npy = AbsentFile]
        /\ writer' = [writer EXCEPT !.npy = 0]
     \/ /\ cache.json.present
        /\ cache' = [cache EXCEPT !.json = AbsentFile]
        /\ writer' = [writer EXCEPT !.json = 0]
  /\ creq' = NoCReq
  /\ cres' = NoCRes
  /\ UNCHANGED <<srcDates, negDays, req, res, pc, attrVars, obj, descVars, fileVars, raceVars>>

\* the data set opened again after its gauge list changed: self.gage is another
\* list, which may name a basin that has no source file
ReopenDataset ==
  /\ pc = "writes"
  /\ \E gage \in InjSeqs(ReqBasins(obj.region), MaxGages, MaxGages) \ {obj.gage} :
       obj' = [obj EXCEPT !.gage = gage]
  /\ creq' = NoCReq
  /\ cres' = NoCRes
  /\ UNCHANGED <<srcDates, negDays, req, res, pc, attrVars, cache, writer, descVars, fileVars,
                 raceVars>>

NextWrites == WriteNpJson \/ WriteXrdataset \/ DeleteCacheFile \/ ReopenDataset

SpecWrites == InitWrites /\ [][NextWrites]_vars

\* ------------------------------------------------------------- properties
SeriesCall == pc = "done" /\ req.op \in {"read_target_cols", "read_relevant_cols"}

\* a call that names its variables
NamedCall == SeriesCall /\ req.cols # None

Calendar == t_range_days(req.t)

\* C1: a completed read_target_cols / read_relevant_cols returns a tensor of shape
\* (number of requested basins, number of days of t_range, number of variables)
C1_Shape ==
  (NamedCall /\ res.status = "ok") =>
     /\ Len(res.y) = Len(req.gages)
     /\ \A i \in 1..Len(res.y) :
          /\ Len(res.y[i]) = req.t[2] - req.t[1]
          /\ \A p \in 1..Len(res.y[i]) : Len(res.y[i][p]) = Len(req.cols)

\* the source holds a requested day, lacks another and holds a day outside the range
C1_Witness ==
  /\ SeriesCall /\ res.status = "ok"
  /\ Len(req.gages) = 2 /\ Len(req.cols) = 2
  /\ \E d \in Range(Calendar) : d \in Range(srcDates)
  /\ \E d \in Range(Calendar) : d \notin Range(srcDates)
  /\ \E d \in Range(srcDates) : d \notin Range(Calendar)

\* the source number of requested basin i, variable k on day `day'
SourceCell(i, k, day) ==
  Cell(BasinIndex(req.region, req.gages[i]), IndexOf(AllCols(req.region), req.cols[k]), day)

Elements ==
  {ipk \in (1..Len(req.gages)) \X (1..Len(Calendar)) \X (1..Len(req.cols)) :
      req.cols # None /\ Contains(AllCols(req.region), req.cols[ipk[3]])}

\* C2: a calendar day with a source row carries that row's number at the day's
\* position (NaN only where a negative streamflow was masked), a calendar day
\* without a source row is NaN; rows outside the range and the row order play no part
C2_ScatterByDate ==
  (SeriesCall /\ res.status = "ok") =>
     \A e \in Elements :
        LET x   == res.y[e[1]][e[2]][e[3]]
            day == Calendar[e[2]]
            src == SourceCell(e[1], e[3], day)
        IN  IF day \in Range(srcDates)
            THEN /\ x.nan => (IsNegative(src) /\ req.op = "read_target_cols")
                 /\ ~x.nan => x.v = src.v
            ELSE x = NaN

\* unsorted source rows, one of them outside the range, one calendar day without a row
C2_Witness ==
  /\ SeriesCall /\ res.status = "ok"
  /\ Len(srcDates) >= 2 /\ srcDates[1] > srcDates[2]
  /\ \E d \in Range(srcDates) : d \notin Range(Calendar)
  /\ \E d \in Range(Calendar) : d \notin Range(srcDates)
  /\ \E e \in Elements : ~res.y[e[1]][e[2]][e[3]].nan

ReadSeries(op, r, gages, t, cols) ==
  IF op = "read_target_cols" THEN read_target_cols(r, gages, t, cols)
  ELSE read_relevant_cols(r, gages, t, cols)

\* C3: row i of the tensor is the series of gage_id_lst[i]: it equals the row a call
\* for that basin alone returns, wherever the basin stands in the list
C3_RowFollowsCaller ==
  (NamedCall /\ res.status = "ok") =>
     \A i \in 1..Len(req.gages) :
        LET one == ReadSeries(req.op, req.region, <<req.gages[i]>>, req.t, req.cols)
        IN  one.ok /\ one.val[1] = res.y[i]

\* a shared-file read of two basins listed against the order of the file's columns
C3_Witness ==
  /\ NamedCall /\ res.status = "ok"
  /\ req.region \in {"AUS", "IND"} /\ req.op = "read_target_cols"
  /\ req.gages = <<GageId(req.region, FileBasins[2]), GageId(req.region, FileBasins[1])>>
  /\ res.y[1] # res.y[2]

TargetCall == pc = "done" /\ req.op = "read_target_cols" /\ res.status = "ok"

\* C5: the tensor of read_target_cols holds no negative number
C5_NoNegativeTarget ==
  TargetCall => \A e \in Elements : ~IsNegative(res.y[e[1]][e[2]][e[3]])

\* C6: read_relevant_cols returns a negative source number of a forcing variable as it is
C6_NegativeForcingKept ==
  (pc = "done" /\ req.op = "read_relevant_cols" /\ res.status = "ok") =>
     \A e \in Elements :
        LET day == Calendar[e[2]]
            src == SourceCell(e[1], e[3], day)
        IN  (day \in Range(srcDates) /\ IsNegative(src)) => res.y[e[1]][e[2]][e[3]] = src

\* a region whose forcing and streamflow share one helper returned a negative forcing number
C6_Witness ==
  /\ pc = "done" /\ req.op = "read_relevant_cols" /\ res.status = "ok"
  /\ req.region \in {"CH", "DE", "DK", "SE"}
  /\ \E e \in Elements : IsNegative(res.y[e[1]][e[2]][e[3]])

\* ---------------------------------------------------------- unit conversion
\* the divisor of `y / 84.6', in tenths
MLdDivisorTenths == 846

\* 0.011574074074074 m3/s, the documented value of 1 ML/day, in units of 1e-7
DocumentedM3sPerMLdE7 == 115740

FixedPoint == 10 ^ 7

RECURSIVE DivideE7(_, _)
\* n divided d times by 84.6
DivideE7(n, d) == IF d = 0 THEN n ELSE DivideE7((n * 10) \div MLdDivisorTenths, d - 1)

\* the number of an element before the final unit step, in units of 1e-7
PreUnitE7(x) == DivideE7(x.v * FixedPoint, x.d)

Abs(n) == IF n < 0 THEN 0 - n ELSE n

ColumnElements(k) == {e \in Elements : e[3] = k /\ ~res.y[e[1]][e[2]][e[3]].nan}

\* C7: a source value of 1.0 ML/day in the streamflow_MLd column becomes
\* 0.011574074074074 m3/s before the final unit step
C7_MLdFactor ==
  (TargetCall /\ req.region = "AUS") =>
     \A k \in 1..Len(req.cols) : req.cols[k] = "streamflow_MLd" =>
        \A e \in ColumnElements(k) :
           LET x == res.y[e[1]][e[2]][e[3]]
           IN  x.v = 1 => Abs(PreUnitE7(x) - DocumentedM3sPerMLdE7) <= 1

\* C8: AUS, ['streamflow_MLd'], one basin, three days of which the source has two:
\* shape (1,3,1), the missing day NaN, a known day the source number over 84.6
\* passed through the final unit step
C8_Scenario == pc = "done" /\ req.op = "read_target_cols" /\ req.region = "AUS"
               /\ req.cols = <<"streamflow_MLd">> /\ Len(req.gages) = 1
               /\ Contains(FileBasins, req.gages[1])
               /\ req.t[2] - req.t[1] = 3
               /\ Cardinality(Range(srcDates) \cap Range(Calendar)) = 2
               /\ negDays = {}

SourceUnit(col) ==
  CASE col \in {"discharge_vol(m3/s)", "discharge_vol", "Qobs_m3s", "streamflow_observed",
                "Qobs", "Qdkm"} -> "m3/s"
    [] col \in {"streamflow_mmd", "discharge_spec(mm/d)", "discharge_spec", "tsd_q_mm",
                "Qobs_mm", "streamflow_mm_selected_catchments"} -> "mm/d"
    [] col = "tsd_q_l" -> "L/s"
    [] col \in {"streamflow_MLd", "streamflow_MLd_inclInfilled"} -> "ML/d"

\* C9: every column is normalized by its own unit: m3/s only by the final step,
\* L/s by the L/s factor, ML/day by one division by the ML/day factor, mm/day with
\* the catchment area, and never with the factor of another unit
C9_UnitPerColumn ==
  TargetCall =>
     \A k \in 1..Len(req.cols) : \A e \in ColumnElements(k) :
        LET x == res.y[e[1]][e[2]][e[3]]
            unit == SourceUnit(req.cols[k])
        IN  CASE unit = "m3/s" -> x.d = 0 /\ x.u = "m3tofoot3"
              [] unit = "L/s"  -> x.d = 0 /\ x.u = "Ltofoot3"
              [] unit = "ML/d" -> x.d = 1 /\ x.u = "m3tofoot3"
              [] unit = "mm/d" -> x.d = 0 /\ x.u = "mmd_area"

\* ------------------------------------------------------ attribute properties
AttrCall == pc = "done" /\ areq.region \in AttrRegions

AttrSource == attrFiles[areq.region]

RECURSIVE Offset(_, _)
\* the number of matrix columns before the block of the j-th file
Offset(files, j) == IF j = 1 THEN 0 ELSE Offset(files, j - 1) + Len(files[j - 1].tab.names)

\* C4: for basins of the source in any order, or a proper subset of them, the matrix
\* has one row per requested basin and row i holds the attributes of basin_ids[i]
C4_RowsFollowBasinIds ==
  (AttrCall /\ Range(areq.gages) \subseteq Range(AttrSource[1].tab.ids)) =>
     /\ ares.status = "ok"
     /\ Len(ares.out) = Len(areq.gages)
     /\ \A i \in 1..Len(areq.gages) : \A j \in 1..Len(AttrSource) :
          LET tab == AttrSource[j].tab
              row == IndexOf(tab.ids, areq.gages[i])
          IN  ares.out[i][Offset(AttrSource, j) + 1] = ANum(tab.cols[1][row].n)

\* C10: a column of strings becomes the codes 0,1,2,... of its distinct values in
\* lexical order, the sorted levels are stored under the column's name, and a
\* numeric column is copied
C10_Factorize ==
  (AttrCall /\ ares.status = "ok") =>
     \A j \in 1..Len(AttrSource) : \A k \in 1..Len(AttrSource[j].tab.names) :
        LET tab  == AttrSource[j].tab
            col  == tab.cols[k]
            pos  == Offset(AttrSource, j) + k
            name == tab.names[k]
        IN  /\ (\A i \in 1..Len(col) : col[i].kind = "str") =>
                 /\ DictHas(ares.f_dict, name)
                 /\ LET L == DictGet(ares.f_dict, name)
                    IN  /\ Range(L) = {col[i].s : i \in 1..Len(col)}
                        /\ \A a, b \in 1..Len(L) : a < b => LexLess(L[a], L[b])
                        /\ \A i \in 1..Len(ares.out) :
                             /\ ~ares.out[i][pos].nan
                             /\ ares.out[i][pos].n \in 0..(Len(L) - 1)
                             /\ L[ares.out[i][pos].n + 1] = col[i].s
            /\ (\A i \in 1..Len(col) : col[i].kind = "num") =>
                 \A i \in 1..Len(ares.out) : ares.out[i][pos] = ANum(col[i].n)

\* the column ['A','B','A','C'] gave the codes [0,1,0,2] and the levels ['A','B','C']
C10_Witness ==
  /\ AttrCall /\ ares.status = "ok" /\ areq.region = "AUS"
  /\ Len(AttrSource[1].tab.cols[2]) = 4 /\ Len(ares.out) = 4
  /\ [i \in 1..4 |-> AttrSource[1].tab.cols[2][i].s] = <<"A", "B", "A", "C">>
  /\ [i \in 1..4 |-> ares.out[i][2].n] = <<0, 1, 0, 2>>
  /\ DictGet(ares.f_dict, "master_cls") = <<"A", "B", "C">>

CacheWritten ==
  /\ creq.op \in {"cache_streamflow_np_json", "cache_forcing_np_json"}
  /\ cres.status = "ok"

\* the read operation of the cache key, for the basins `gages'
CacheRead(gages) ==
  ReadSeries(IF obj.kind = "streamflow" THEN "read_target_cols" ELSE "read_relevant_cols",
             obj.region, gages, obj.time_range, CacheVariables(obj.region, obj.kind))

XrCalled == creq.op = "cache_streamflow_xrdataset"

\* C13: a call of cache_streamflow_xrdataset recomputes the cache exactly when the
\* array file or the sidecar is absent when it is called; with both files present
\* it only loads them: no source file is read and neither cache file is rewritten
C13_RecomputeIffAbsent ==
  [][XrCalled' =>
       LET both == cache.npy.present /\ cache.json.present
       IN  /\ Contains(cres'.steps, "read_source") <=> ~both
           /\ Contains(cres'.steps, "write_npy") => ~both
           /\ Contains(cres'.steps, "write_json") => ~both
           /\ both => /\ cache' = cache
                       /\ cres'.status = "ok"
                       /\ cres'.steps = <<"load_npy", "load_json">>
                       /\ cres'.data.basin = cache.json.content.basin
                       /\ \A i \in 1..Len(cache.npy.content) :
                            \A q \in 1..Len(cache.npy.content[i]) :
                               cres'.data.streamflow[i][q] = cache.npy.content[i][q][1]]_vars

\* a call that found both files and returned the cached tensor although the source
\* files give another one now
C13_Witness ==
  /\ XrCalled /\ creq.npy /\ creq.json /\ cres.status = "ok"
  /\ CacheRead(obj.gage).ok /\ CacheRead(obj.gage).val # cache.npy.content

\* ------------------------------------------------------ outcomes of a read
\* y has three axes, the first of ng rows and the second of nt days
FullShape(y, ng, nt) ==
  /\ Len(y) = ng
  /\ \A i \in 1..Len(y) :
       /\ Len(y[i]) = nt
       /\ \A q \in 1..Len(y[i]) : \A i2 \in 1..Len(y) : \A q2 \in 1..Len(y[i2]) :
            Len(y[i][q]) = Len(y[i2][q2])

\* C14: a call of read_target_cols or read_relevant_cols ends with an error or with
\* a tensor of the full shape (basins, days, variables), target_cols = None included
C14_TensorOrError ==
  SeriesCall =>
     \/ res.status = "error"
     \/ /\ res.status = "ok"
        /\ FullShape(res.y, Len(req.gages), Len(Calendar))
        /\ req.cols # None => \A i \in 1..Len(res.y) : \A q \in 1..Len(res.y[i]) :
                                 Len(res.y[i][q]) = Len(req.cols)

\* C15: a read for a basin id that the source table lacks ends with an error, in
\* read_target_cols of the shared-file regions and in read_attr_all
C15_AbsentBasinFails ==
  /\ (/\ pc = "done" /\ req.op = "read_target_cols" /\ req.region \in {"AUS", "IND"}
      /\ req.cols # None
      /\ \E i \in 1..Len(req.gages) : ~HasBasin(req.region, req.gages[i]))
        => res.status = "error"
  /\ (AttrCall /\ ~(Range(areq.gages) \subseteq Range(AttrSource[1].tab.ids)))
        => ares.status = "error"

\* the names the region provides for the operation of the request
Provided ==
  IF req.op = "read_target_cols" THEN TargetCols(req.region) ELSE get_relevant_cols(req.region)

\* C16: a read that asks for a name the region does not provide ends with an error
C16_UnknownVariableFails ==
  (NamedCall /\ \E k \in 1..Len(req.cols) : ~Contains(Provided, req.cols[k]))
     => res.status = "error"

DescCall == dres.op \in {"set_data_source_describe", "get_relevant_cols"}

DescKeys == {dres.val[i][1] : i \in 1..Len(dres.val)}

\* C17: set_data_source_describe and get_relevant_cols of CamelsAus return a result
\* exactly for the region codes 'AUS' and 'AUS_v2'; for every other code they end with
\* an error and return nothing; a description that is returned has all its entries
C17_RegionCodes ==
  DescCall =>
    /\ dres.status = "ok" <=> ausRegion \in {"AUS", "AUS_v2"}
    /\ dres.status = "error" <=> ausRegion \notin {"AUS", "AUS_v2"}
    /\ dres.status = "error" => dres.val = <<>> /\ dres.err = "NotImplementedError"
    /\ (dres.op = "set_data_source_describe" /\ dres.status = "ok") =>
          {"CAMELS_DIR", "CAMELS_FLOW_DIR", "CAMELS_FORCING_DIR", "CAMELS_ATTR_DIR",
           "CAMELS_GAUGE_FILE", "CAMELS_BASINS_SHP_FILE"} \subseteq DescKeys

C17_Witness ==
  /\ dres.op = "get_relevant_cols"
  /\ ausRegion = "AUS_V2"
  /\ Len(ausFiles) > 0
  /\ dres.status = "error"

\* the value block of the file the claim names for requested basin i: the gauged file
\* when it exists, else the ungauged one
DkBlock(i) ==
  LET f == dkFiles[req.gages[i]]
  IN  IF f.gauged # 0 THEN f.gauged ELSE f.ungauged

DkNoFile(i) == dkFiles[req.gages[i]] = [gauged |-> 0, ungauged |-> 0]

\* C18: a DK read takes every basin's values from its Gauged_catchments file whenever
\* that file exists, from its Ungauged_catchments file only when the gauged one does not
\* exist, and ends with an error and no data when a requested basin has neither
C18_GaugedPreferred ==
  (NamedCall /\ req.region = "DK") =>
     /\ (\E i \in 1..Len(req.gages) : DkNoFile(i)) => (res.status = "error" /\ res.y = <<>>)
     /\ res.status = "ok" =>
          \A i \in 1..Len(req.gages) : \A p \in 1..Len(Calendar) : \A k \in 1..Len(req.cols) :
             Calendar[p] \in Range(srcDates) =>
                LET x == res.y[i][p][k]
                IN  /\ ~x.nan
                    /\ x.v = Cell(DkBlock(i), IndexOf(AllCols("DK"), req.cols[k]), Calendar[p]).v

\* a basin with both files, which hold different values
C18_Witness ==
  /\ NamedCall /\ req.region = "DK" /\ res.status = "ok"
  /\ \E d \in Range(Calendar) : d \in Range(srcDates)
  /\ \E i \in 1..Len(req.gages) :
        LET f == dkFiles[req.gages[i]]
        IN  f.gauged # 0 /\ f.ungauged # 0 /\ f.gauged # f.ungauged
  /\ \E i \in 1..Len(req.gages) : dkFiles[req.gages[i]].gauged = 0

SeMatches(gage) == {i \in 1..Len(seFiles) : SeRegexSearch(gage, seFiles[i].name)}

\* C19: an SE read of a basin for which no file name or more than one file name of the
\* flow directory matches ends with an error
C19_ExactlyOneMatch ==
  (NamedCall /\ req.region = "SE"
     /\ \E i \in 1..Len(req.gages) : Cardinality(SeMatches(req.gages[i])) # 1)
        => res.status = "error"

RECURSIVE VarDictConcat(_, _)
\* var_dict[key] of the first j keys of the region's key list, one after the other
VarDictConcat(keys, j) ==
  IF j = 0 THEN <<>> ELSE VarDictConcat(keys, j - 1) \o DictGet(ares.var_dict, keys[j])

\* C20: for CH and FR the name list is as long as the matrix is wide, the columns of
\* the j-th key's file stand after those of the keys before it, column by column under
\* the file's names, and var_dict[key] joined in key list order is the name list
C20_ConcatInKeyOrder ==
  (AttrCall /\ areq.region \in {"CH", "FR"} /\ ares.status = "ok") =>
     /\ \A i \in 1..Len(ares.out) : Len(ares.out[i]) = Len(ares.var_lst)
     /\ \A j \in 1..Len(AttrSource) : \A k \in 1..Len(AttrSource[j].tab.names) :
          LET tab == AttrSource[j].tab
              pos == Offset(AttrSource, j) + k
          IN  /\ ares.var_lst[pos] = tab.names[k]
              /\ is_numeric_dtype(tab.cols[k]) =>
                    \A i \in 1..Len(ares.out) :
                       \E row \in 1..Len(tab.cols[k]) :
                          ares.out[i][pos] = NumericValues(tab.cols[k])[row]
     /\ [j \in 1..Len(AttrSource) |-> ares.var_dict[j].key]
           = [j \in 1..Len(AttrSource) |-> AttrSource[j].key]
     /\ VarDictConcat([j \in 1..Len(AttrSource) |-> AttrSource[j].key], Len(AttrSource))
           = ares.var_lst

\* two category files of two columns each, read for two basins or more
C20_Witness ==
  /\ AttrCall /\ areq.region = "FR" /\ ares.status = "ok"
  /\ Len(AttrSource) >= 2
  /\ Len(ares.var_lst) = 4
  /\ Len(ares.out) >= 2

\* the names of the variable files of the listing, without their extension
VariableFileNames ==
  ForcingTypes(ausFiles, {"ClimaticIndices.csv", "desktop.ini"})

\* C21: for AUS and for AUS_v2, get_relevant_cols returns the extension-stripped names
\* of the variable files of the forcing directory tree and of no other file: neither
\* ClimaticIndices.csv nor desktop.ini shows in the result
C21_OnlyVariableFiles ==
  (dres.op = "get_relevant_cols" /\ dres.status = "ok") => dres.val = VariableFileNames

\* the file f holds, whole, the content of the cache file c, or neither exists
SameFile(f, c) ==
  IF c.present THEN Complete(f) /\ f.chunks[1].v = c.content ELSE ~f.present

\* what one process alone leaves and returns on an empty cache
SingleRun == cache_streamflow_xrdataset(obj, NoCache)

\* C22: when two processes that ran the check-then-write path of one cache key at the
\* same time have both ended, each cache file holds what one process alone would have
\* written, whole, and a later call returns what one process alone would have returned
C22_LastWriterWins ==
  RaceOver =>
     /\ SameFile(rfiles.json, SingleRun.cache.json)
     /\ SameFile(rfiles.npy, SingleRun.cache.npy)
     /\ pc = "later" =>
          /\ cres.status = CacheOutcome(SingleRun).status
          /\ cres.data = SingleRun.data

\* both processes found the cache absent and wrote both files, their writes
\* interleaved, and the later call returned the data set
C22_Witness ==
  /\ pc = "later" /\ cres.status = "ok"
  /\ \A p \in Procs : procs[p].data # <<>>
  /\ \E p \in Procs : procs[p].pc = "failed"
  /\ Len(cres.data.basin) = 2

\* the key names of a description
KeysOf(d) == {d[i][1] : i \in 1..Len(d)}

\* the descriptions the nine regions get
AllDescriptions ==
  {CamelsAusDescribe, CamelsAusV2Describe} \cup {CamelsDescribe(cls) : cls \in CamelsClasses}

DescribeDone ==
  /\ dres.op \in {"set_data_source_describe", "_set_data_source_camels_describe"}
  /\ dres.status = "ok"

\* C23: a description that is returned has the key names of every region's
\* description: a key present in one of them is present in every other one
C23_SameKeysEverywhere ==
  DescribeDone => \A d \in AllDescriptions : KeysOf(d) = DescKeys

\* C24: in every region with a fixed forcing variable list the descriptor has one
\* unit for each variable get_relevant_cols returns
C24_OneUnitPerForcing ==
  dres.op = "forcing_unit" => Len(dres.val.unit) = Len(dres.val.cols)

C24_Witness ==
  /\ dres.op = "forcing_unit"
  /\ dres.val.region = "DE"
  /\ Len(dres.val.cols) = 19
  /\ dres.val.cols[Len(dres.val.unit)] = "temperature_max"

\* C25: in the tensor CamelsAus.read_target_cols returns, the column of
\* 'streamflow_MLd' is divided by 84.6 exactly once and the columns of the other
\* targets are not divided, whatever the position of the names in target_cols
C25_DivisionPerColumn ==
  (TargetCall /\ req.region = "AUS" /\ req.cols # None) =>
     \A k \in 1..Len(req.cols) : \A e \in ColumnElements(k) :
        res.y[e[1]][e[2]][e[3]].d = (IF req.cols[k] = "streamflow_MLd" THEN 1 ELSE 0)

\* C26: after read_attr_all every entry of a factorized column is an index into the
\* levels stored under the column's name, and the level at that index is the
\* string of the row, also in the rows whose value is missing
C26_CodesIndexLevels ==
  (AttrCall /\ ares.status = "ok") =>
     \A j \in 1..Len(AttrSource) : \A k \in 1..Len(AttrSource[j].tab.names) :
        LET tab == AttrSource[j].tab
            col == tab.cols[k]
            pos == Offset(AttrSource, j) + k
        IN  (is_string_dtype(col, areq.legacy) /\ Len(ares.out) = Len(col)) =>
               /\ DictHas(ares.f_dict, tab.names[k])
               /\ \A i \in 1..Len(col) :
                     LET L == DictGet(ares.f_dict, tab.names[k])
                         x == ares.out[i][pos]
                     IN  /\ ~x.nan
                         /\ x.n \in 0..(Len(L) - 1)
                         /\ col[i].kind = "str" => L[x.n + 1] = col[i].s

\* the key of the region has one of its candidate files
HasFile(f) == IF areq.region = "FR" THEN f.static \/ f.stats ELSE f.static

\* C27: after read_attr_all over the files of CH or FR the levels stored under the
\* name of a factorized column are the levels that gave the column its codes, also
\* when two files hold a string column of the same name
C27_LevelsOfEachColumn ==
  (AttrCall /\ ares.status = "ok" /\ areq.region \in {"CH", "FR"}
            /\ \A j \in 1..Len(AttrSource) : HasFile(AttrSource[j])) =>
     \A j \in 1..Len(AttrSource) : \A k \in 1..Len(AttrSource[j].tab.names) :
        LET tab == AttrSource[j].tab
            pos == Offset(AttrSource, j) + k
        IN  is_string_dtype(tab.cols[k], areq.legacy) =>
               /\ ares.var_lst[pos] = tab.names[k]
               /\ DictHas(ares.f_dict, ares.var_lst[pos])
               /\ DictGet(ares.f_dict, ares.var_lst[pos]) = FactorizeRef(tab.cols[k])

\* C28: CamelsFr.read_attr_all records under a key the columns of one of the key's
\* own candidate files, and fails when a key has neither file, wherever the key
\* stands in the list
C28_OwnFileOrError ==
  (AttrCall /\ areq.region = "FR") =>
     /\ (\E j \in 1..Len(AttrSource) : ~HasFile(AttrSource[j])) => ares.status = "error"
     /\ ares.status = "ok" =>
           \A j \in 1..Len(AttrSource) :
              DictGet(ares.var_dict, AttrSource[j].key) = AttrSource[j].tab.names

\* the positions of the factorized columns of a result
CodeColumns(a) == {p \in 1..Len(a.var_lst) : DictHas(a.f_dict, a.var_lst[p])}

OtherCall == pc = "other" /\ ares.status = "ok" /\ ares2.status = "ok"

\* C30: two calls for different basin lists over the same files return the same
\* factorization dictionary and the same codes in the factorized columns
C30_CodesIgnoreRequest ==
  OtherCall =>
     /\ ares2.f_dict = ares.f_dict
     /\ ares2.var_lst = ares.var_lst
     /\ \A p \in CodeColumns(ares) :
          \A i \in 1..Len(ares.out) : i <= Len(ares2.out) => ares2.out[i][p] = ares.out[i][p]

C30_Witness ==
  /\ OtherCall
  /\ areq.region = "CH"
  /\ Range(ares2.gages) # Range(areq.gages)
  /\ Len(ares.out) = 2 /\ Len(ares2.out) = 2
  /\ \E p \in CodeColumns(ares2) : ares2.out[1][p] # ares2.out[2][p]

\* C29: whenever the sidecar and the array of a cache key are both present, one and
\* the same call wrote them
C29_PairFromOneCall ==
  (pc = "writes" /\ cache.npy.present /\ cache.json.present) => writer.npy = writer.json

====
